---- MODULE Spec2Model ----
(***************************************************************************)
(* A model of the research-orchestration core of mcp-researchpowerpack:    *)
(*   - the bounded worker pool            (utils/concurrency.ts)           *)
(*   - the Reddit credential cache        (clients/reddit.ts)              *)
(*   - the consensus aggregator           (utils/url-aggregator.ts)        *)
(* Each component has its own specification over the shared variables;    *)
(* the components that a specification does not run stay in their          *)
(* not-yet-called state.                                                   *)
(***************************************************************************)
EXTENDS Integers, Sequences, FiniteSets, TLC

(* ---------------------------------------------------------------------- *)
(* Bounds of the model                                                    *)
(* ---------------------------------------------------------------------- *)
\* largest number of items handed to pMap / pMapSettled
MaxItems == 3
\* number of callers asking for the Reddit credential
MaxCallers == 3
\* last value of the clock
MaxTime == 3
\* largest number of searches (queries) in one aggregation
MaxQueries == 3
\* largest number of results over all searches of one aggregation
MaxResults == 3
MaxAttempt == 5
MaxUnits == 12
MaxRequests == 3
MaxEvents == 4
MaxSearches == 2
MaxHttpRequests == 3
MaxSessions == 2

VARIABLES
    \* ---- bounded worker pool: one call of pMap / pMapSettled
    mode,          \* which function is called: "pMap" | "pMapSettled"
    items,         \* the items argument
    failing,       \* the indices (1-based) whose mapper call rejects
    concurrency,   \* the concurrency argument as requested by the caller
    nextIndex,     \* the shared cursor `nextIndex` (number of claimed items)
    results,       \* the `results` array, one slot per item
    workerPc,      \* per pull-loop: "awaiting" | "done" | "rejected"
    workerIndex,   \* per pull-loop: the index it claimed last
    mapperState,   \* per item: "idle" | "pending" | "fulfilled" | "rejected"
    invoked,       \* per item: how many times the mapper was called for it
    settleOrder,   \* the order in which the mapper calls settled
    poolState,     \* the promise returned to the caller:
                   \*   "idle" | "pending" | "resolved" | "rejected"
    \* ---- Reddit credential cache (process-wide) and its callers
    cachedToken,   \* the cached token (the number of the fetch that produced
                   \*   it), 0 when there is none
    tokenExpiry,   \* the clock value at which the cached token really expires
    pendingAuth,   \* the in-flight-fetch marker: the pending fetch, 0 if none
    fetchCount,    \* how many upstream token fetches were issued
    fetchResult,   \* per issued fetch: "pending" | "ok" | "failed"
    now,           \* the clock
    callerPc,      \* per caller: "idle" | "awaiting" | "done"
    callerFetch,   \* per caller: the fetch it awaits (0: served from the cache)
    callerToken,   \* per caller: the token it resolved to (0: the fetch failed)
    callerArrival, \* per caller: how many fetches had settled when it asked
    \* ---- consensus aggregator: one call of aggregateAndRank(Reddit)
    domain,        \* "web" (aggregateAndRank) | "reddit" (aggregateAndRankReddit)
    minConsensusUrls, \* the minConsensusUrls argument (0 until it is read)
    urlMap,        \* the Map of aggregateResults, in insertion order
    curQuery,      \* the search being merged (outer loop), 0 before the first
    curPos,        \* results of the current search merged so far (inner loop)
    linkPair,      \* the result links of a single search given as a whole
    aggPc,         \* "merging" | "ranked"
    aggregation,   \* the returned AggregationResult (once ranked)
    \* ---- retry loops: one call of research() or processContentWithLLM()
    input,         \* the arguments and configuration of the call
    retryPc,       \* "off" | "start" | "calling" | "sleeping" | "done" |
                   \*   "rejected" (the returned promise rejected)
    model,         \* the model executeResearch runs: "primary" | "fallback"
    attempt,       \* the loop variable of the retry loop
    calls,         \* per model: upstream calls issued
    lastOutcome,   \* per model: how its latest upstream call ended
    lastError,     \* the lastError local of the running retry loop
    primaryResult, \* research(): the result of the primary executeResearch
    retryResult,   \* the value the call resolved to (once done)
    signalAborted, \* whether the AbortSignal given to the call has fired
    \* ---- backoff delays: the successive sleeps of one retried operation
    bFn,           \* whose backoff: "research" (calculateBackoff) | "llm"
    bAttempt,      \* the attempt of the latest sleep, -1 before the first
    bExponential,  \* its exponentialDelay
    bJitter,       \* its jitter
    bDelay,        \* the delay it returned
    bPrevExponential,\* the exponentialDelay of the sleep before it
    \* ---- budget allocation: one allocation call
    aFn,           \* "tokens" (calculateTokenAllocation) | "plan"
                   \*   (calculateCommentAllocation) | "reddit"
                   \*   (handleGetRedditPosts up to its fetch)
    aArgs,         \* the arguments of the call
    aPc,           \* "off" | "called" | "done"
    aOut,          \* what the call computed (once done)
    \* ---- CallTool requests served by one server
    tEntry,        \* the entry point: "index" (STDIO / HTTP) | "worker"
    tPc,           \* per request: "idle" | "executing" | "returned" (the
                   \*   handler resolved) | "rethrown" (the handler rejected)
    tSettled,      \* per request: how executeTool settled
    tResponse,     \* per request: what the handler resolved or rejected with
    \* ---- process lifetime: fatal-error, signal and stdin handlers
    isShuttingDown,          \* the flag of gracefulShutdown
    fatalHandlerInProgress,  \* the flag of the fatal-error handlers
    streamExitInProgress,    \* the flag of exitOnBrokenPipe
    sigintListener,          \* whether the once() listener for SIGINT is on
    closePc,                 \* server.close(): "off" | "none" | "pending" |
                             \*   how it settled (CloseOutcomes)
    shutdownExitCode,        \* the exitCode of the running gracefulShutdown
    closeCalls,              \* how many times server.close() was invoked
    exitStatus,              \* the code given to process.exit, Running before
    procEvents,              \* the events delivered to the process so far
    \* ---- aggregation of the same searches in every processing order
    pDomain,       \* "web" | "reddit", "off" when not in use
    pSearches,     \* the searches, in the order given
    pMinUrls,      \* the minConsensusUrls argument
    pPc,           \* "input" | "done"
    pOutcomes,     \* what the aggregation gives, per processing order
    \* ---- HTTP mode: the session map and the requests to /mcp
    sessions,      \* the ids registered in the `sessions` map
    hInitialized,  \* the ids onsessioninitialized was called with
    hClosed,       \* the ids removed by a DELETE or by onsessionclosed
    hReq,          \* per request: method, session id header, position, answer
    hDispatches    \* the calls of transport.handleRequest for a request that
                   \*   carried a session id, with the map as it was then

poolVars == <<mode, items, failing, concurrency, nextIndex, results, workerPc,
              workerIndex, mapperState, invoked, settleOrder, poolState>>

authVars == <<cachedToken, tokenExpiry, pendingAuth, fetchCount, fetchResult,
              now, callerPc, callerFetch, callerToken, callerArrival>>

aggVars == <<domain, minConsensusUrls, urlMap, curQuery, curPos, linkPair,
             aggPc, aggregation>>

retryVars == <<input, retryPc, model, attempt, calls, lastOutcome, lastError,
               primaryResult, retryResult, signalAborted>>

backoffVars == <<bFn, bAttempt, bExponential, bJitter, bDelay, bPrevExponential>>

allocVars == <<aFn, aArgs, aPc, aOut>>

toolVars == <<tEntry, tPc, tSettled, tResponse>>

procVars == <<isShuttingDown, fatalHandlerInProgress, streamExitInProgress,
              sigintListener, closePc, shutdownExitCode, closeCalls,
              exitStatus, procEvents>>

permVars == <<pDomain, pSearches, pMinUrls, pPc, pOutcomes>>

httpVars == <<sessions, hInitialized, hClosed, hReq, hDispatches>>

vars == <<poolVars, authVars, aggVars, retryVars, backoffVars, allocVars, toolVars, procVars, permVars, httpVars>>

Min(a, b) == IF a <= b THEN a ELSE b
Max(a, b) == IF a >= b THEN a ELSE b

(* ====================================================================== *)
(* Bounded worker pool                                                    *)
(* ====================================================================== *)

N == Len(items)

\* a slot of `new Array(items.length)` that was never written
EmptySlot == [status |-> "empty"]

\* what the mapper resolves to for items[i] (it receives the item and its index)
MapperValue(i) == <<items[i], i>>

\* the possible items
ItemValues == {"x", "y"}

\* a faulty variant of Limit: one pull-loop per item (an unbounded Promise.all)
LimitPerItem(c, n) == n

\* a faulty variant of Limit: the lower clamp is missing
LimitNoFloor(c, n) == Min(c, n)

\* Math.max(1, Math.min(concurrency, items.length))
Limit(c, n) == Max(1, Min(c, n))

\* a faulty variant of CatchesRejection: the worker has no try/catch in either mode
CatchesNothing(m) == FALSE

\* pMapSettled's worker wraps the await in try/catch, pMap's does not
CatchesRejection(m) == m = "pMapSettled"

\* a faulty variant of StoreSlot: results are pushed in completion order
StoreSlotCompletionOrder(w) ==
    Cardinality({i \in 1..N : results[i] # EmptySlot}) + 1

\* results[index] = ... : the slot a pull-loop writes is the index it claimed
StoreSlot(w) == workerIndex[w]

\* a faulty variant of ClaimedIndex: the cursor is read after the index before
\* it was handed out, so a pull-loop takes the index claimed last once more
ClaimedIndexStale(cursor) == cursor

\* const index = nextIndex++ : the index a pull-loop claims is the cursor's
\* value before the increment (items are numbered from 1 here)
ClaimedIndex(cursor) == cursor + 1

\* a faulty variant of HasSettled: only a fulfilled call wakes the pull-loop
HasFulfilled(state) == state = "fulfilled"

\* `await mapper(...)` continues once the promise has settled, either way
HasSettled(state) == state \in {"fulfilled", "rejected"}

\* the value written for a settled mapper call of item i
SlotValue(i) ==
    IF mode = "pMap"
    THEN [status |-> "value", value |-> MapperValue(i)]
    ELSE IF mapperState[i] = "fulfilled"
         THEN [status |-> "fulfilled", value |-> MapperValue(i)]
         ELSE [status |-> "rejected", value |-> <<"error", i>>]

PoolInit ==
    /\ mode \in {"pMap", "pMapSettled"}
    /\ \E n \in 0..MaxItems : items \in [1..n -> ItemValues]
    /\ failing \in SUBSET (1..Len(items))
    /\ concurrency \in -1..(MaxItems + 1)
    /\ nextIndex = 0
    /\ results = <<>>
    /\ workerPc = <<>>
    /\ workerIndex = <<>>
    /\ mapperState = [i \in 1..Len(items) |-> "idle"]
    /\ invoked = [i \in 1..Len(items) |-> 0]
    /\ settleOrder = <<>>
    /\ poolState = "idle"

\* the state of the pool in a specification that never calls it
PoolOff ==
    /\ mode = "pMap"
    /\ items = <<>>
    /\ failing = {}
    /\ concurrency = 1
    /\ nextIndex = 0
    /\ results = <<>>
    /\ workerPc = <<>>
    /\ workerIndex = <<>>
    /\ mapperState = <<>>
    /\ invoked = <<>>
    /\ settleOrder = <<>>
    /\ poolState = "idle"

\* The synchronous part of pMap / pMapSettled: the early return for no items,
\* the clamp, and the spawn loop. Each worker() call runs synchronously up to
\* its first await, so the k-th pull-loop claims index k and starts its mapper
\* call before the next pull-loop is spawned; a pull-loop that finds the cursor
\* exhausted returns at once.
Call ==
    /\ poolState = "idle"
    /\ IF N = 0
       THEN /\ poolState' = "resolved"
            /\ UNCHANGED <<nextIndex, results, workerPc, workerIndex,
                           mapperState, invoked>>
       ELSE LET limit == Limit(concurrency, N)
                claimed == Min(limit, N)
            IN  /\ poolState' = "pending"
                /\ results' = [i \in 1..N |-> EmptySlot]
                /\ nextIndex' = claimed
                /\ workerPc' = [w \in 1..limit |->
                                  IF w <= claimed THEN "awaiting" ELSE "done"]
                /\ workerIndex' = [w \in 1..limit |->
                                  IF w <= claimed THEN w ELSE 0]
                /\ mapperState' = [i \in 1..N |->
                                  IF i <= claimed THEN "pending" ELSE "idle"]
                /\ invoked' = [i \in 1..N |-> IF i <= claimed THEN 1 ELSE 0]
    /\ UNCHANGED <<mode, items, failing, concurrency, settleOrder>>
    /\ UNCHANGED <<authVars, aggVars, retryVars, backoffVars, allocVars, toolVars, procVars, permVars, httpVars>>

\* The promise of one mapper call settles (the upstream I/O finished).
MapperSettle(i) ==
    /\ i \in 1..N
    /\ mapperState[i] = "pending"
    /\ mapperState' = [mapperState EXCEPT
                         ![i] = IF i \in failing THEN "rejected" ELSE "fulfilled"]
    /\ settleOrder' = Append(settleOrder, i)
    /\ UNCHANGED <<mode, items, failing, concurrency, nextIndex, results,
                   workerPc, workerIndex, invoked, poolState>>
    /\ UNCHANGED <<authVars, aggVars, retryVars, backoffVars, allocVars, toolVars, procVars, permVars, httpVars>>

\* A pull-loop continues after its await: it stores the outcome (or, without a
\* catch, leaves the loop with the rejection), then tests the cursor and either
\* claims the next index and starts its mapper call, or returns.
WorkerResume(w) ==
    /\ w \in DOMAIN workerPc
    /\ workerPc[w] = "awaiting"
    /\ HasSettled(mapperState[workerIndex[w]])
    /\ LET i == workerIndex[w]
       IN  IF mapperState[i] = "rejected" /\ ~CatchesRejection(mode)
           THEN /\ workerPc' = [workerPc EXCEPT ![w] = "rejected"]
                /\ UNCHANGED <<nextIndex, results, workerIndex, mapperState,
                               invoked>>
           ELSE /\ results' = [results EXCEPT ![StoreSlot(w)] = SlotValue(i)]
                /\ IF nextIndex < N
                   THEN /\ nextIndex' = nextIndex + 1
                        /\ workerIndex' = [workerIndex EXCEPT
                                             ![w] = ClaimedIndex(nextIndex)]
                        /\ mapperState' = [mapperState EXCEPT
                                             ![ClaimedIndex(nextIndex)] = "pending"]
                        /\ invoked' = [invoked EXCEPT
                                         ![ClaimedIndex(nextIndex)] = @ + 1]
                        /\ UNCHANGED workerPc
                   ELSE /\ workerPc' = [workerPc EXCEPT ![w] = "done"]
                        /\ UNCHANGED <<nextIndex, workerIndex, mapperState,
                                       invoked>>
    /\ UNCHANGED <<mode, items, failing, concurrency, settleOrder, poolState>>
    /\ UNCHANGED <<authVars, aggVars, retryVars, backoffVars, allocVars, toolVars, procVars, permVars, httpVars>>

\* await Promise.all(workers) rejects as soon as one pull-loop has rejected;
\* the other pull-loops are not cancelled and keep running.
PoolReject ==
    /\ poolState = "pending"
    /\ \E w \in DOMAIN workerPc : workerPc[w] = "rejected"
    /\ poolState' = "rejected"
    /\ UNCHANGED <<mode, items, failing, concurrency, nextIndex, results,
                   workerPc, workerIndex, mapperState, invoked, settleOrder>>
    /\ UNCHANGED <<authVars, aggVars, retryVars, backoffVars, allocVars, toolVars, procVars, permVars, httpVars>>

\* await Promise.all(workers) fulfils when every pull-loop has returned;
\* the function then returns `results`.
PoolResolve ==
    /\ poolState = "pending"
    /\ \A w \in DOMAIN workerPc : workerPc[w] = "done"
    /\ poolState' = "resolved"
    /\ UNCHANGED <<mode, items, failing, concurrency, nextIndex, results,
                   workerPc, workerIndex, mapperState, invoked, settleOrder>>
    /\ UNCHANGED <<authVars, aggVars, retryVars, backoffVars, allocVars, toolVars, procVars, permVars, httpVars>>

PoolNext ==
    \/ Call
    \/ \E i \in 1..MaxItems + 1 : MapperSettle(i)
    \/ \E w \in 1..MaxItems + 1 : WorkerResume(w)
    \/ PoolReject
    \/ PoolResolve

(* ====================================================================== *)
(* Reddit credential cache: token + expiry + pending-fetch marker.        *)
(* It is owned by the Reddit client (clients/reddit.ts); this part        *)
(* follows the design text and the changelog entry                        *)
(* "promise deduplication (pendingAuthPromise)".                          *)
(* ====================================================================== *)

Callers == 1..MaxCallers

\* lifetime of a fetched token, in clock ticks
TokenLifetime == 3

\* the margin before the real expiry at which a cached token stops being used
\* (the "60s buffer"), in clock ticks
ExpiryMargin == 1

\* the cached token is used until the margin before its expiry
TokenValid == cachedToken # 0 /\ now < tokenExpiry - ExpiryMargin

\* a faulty variant of AwaitsPending: no deduplication, every cold caller fetches
NeverAwaitsPending == FALSE

\* a caller that finds a fetch in flight awaits it
AwaitsPending == pendingAuth # 0

AuthInit ==
    /\ cachedToken = 0
    /\ tokenExpiry = 0
    /\ pendingAuth = 0
    /\ fetchCount = 0
    /\ fetchResult = <<>>
    /\ now = 0
    /\ callerPc = [c \in Callers |-> "idle"]
    /\ callerFetch = [c \in Callers |-> 0]
    /\ callerToken = [c \in Callers |-> 0]
    /\ callerArrival = [c \in Callers |-> 0]

\* the state of the cache in a specification that never asks for a credential
AuthOff ==
    /\ cachedToken = 0
    /\ tokenExpiry = 0
    /\ pendingAuth = 0
    /\ fetchCount = 0
    /\ fetchResult = <<>>
    /\ now = 0
    /\ callerPc = <<>>
    /\ callerFetch = <<>>
    /\ callerToken = <<>>
    /\ callerArrival = <<>>

\* the number of fetches that have settled
Settled == Cardinality({f \in DOMAIN fetchResult : fetchResult[f] # "pending"})

\* A caller asks for the credential: a valid cached token is returned at once;
\* otherwise the caller awaits the fetch in flight, or issues the fetch and
\* sets the marker when there is none.
GetToken(c) ==
    /\ callerPc[c] = "idle"
    /\ callerArrival' = [callerArrival EXCEPT ![c] = Settled]
    /\ IF TokenValid
       THEN /\ callerPc' = [callerPc EXCEPT ![c] = "done"]
            /\ callerToken' = [callerToken EXCEPT ![c] = cachedToken]
            /\ UNCHANGED <<pendingAuth, fetchCount, fetchResult, callerFetch>>
       ELSE IF AwaitsPending
       THEN /\ callerPc' = [callerPc EXCEPT ![c] = "awaiting"]
            /\ callerFetch' = [callerFetch EXCEPT ![c] = pendingAuth]
            /\ UNCHANGED <<pendingAuth, fetchCount, fetchResult, callerToken>>
       ELSE /\ fetchCount' = fetchCount + 1
            /\ fetchResult' = Append(fetchResult, "pending")
            /\ pendingAuth' = fetchCount + 1
            /\ callerPc' = [callerPc EXCEPT ![c] = "awaiting"]
            /\ callerFetch' = [callerFetch EXCEPT ![c] = fetchCount + 1]
            /\ UNCHANGED callerToken
    /\ UNCHANGED <<cachedToken, tokenExpiry, now>>
    /\ UNCHANGED <<poolVars, aggVars, retryVars, backoffVars, allocVars, toolVars, procVars, permVars, httpVars>>

\* An upstream fetch answers with a token: it is cached with its expiry; the
\* marker is cleared when the fetch it names settles.
FetchSucceeds(f) ==
    /\ f \in DOMAIN fetchResult
    /\ fetchResult[f] = "pending"
    /\ fetchResult' = [fetchResult EXCEPT ![f] = "ok"]
    /\ cachedToken' = f
    /\ tokenExpiry' = now + TokenLifetime
    /\ pendingAuth' = IF pendingAuth = f THEN 0 ELSE pendingAuth
    /\ UNCHANGED <<fetchCount, now, callerPc, callerFetch, callerToken,
                   callerArrival>>
    /\ UNCHANGED <<poolVars, aggVars, retryVars, backoffVars, allocVars, toolVars, procVars, permVars, httpVars>>

\* An upstream fetch fails: nothing is cached and the marker is cleared.
FetchFails(f) ==
    /\ f \in DOMAIN fetchResult
    /\ fetchResult[f] = "pending"
    /\ fetchResult' = [fetchResult EXCEPT ![f] = "failed"]
    /\ pendingAuth' = IF pendingAuth = f THEN 0 ELSE pendingAuth
    /\ UNCHANGED <<cachedToken, tokenExpiry, fetchCount, now, callerPc,
                   callerFetch, callerToken, callerArrival>>
    /\ UNCHANGED <<poolVars, aggVars, retryVars, backoffVars, allocVars, toolVars, procVars, permVars, httpVars>>

\* A caller's await of the shared fetch returns with the fetch's outcome.
CallerResume(c) ==
    /\ callerPc[c] = "awaiting"
    /\ fetchResult[callerFetch[c]] # "pending"
    /\ callerPc' = [callerPc EXCEPT ![c] = "done"]
    /\ callerToken' = [callerToken EXCEPT
                         ![c] = IF fetchResult[callerFetch[c]] = "ok"
                                THEN callerFetch[c] ELSE 0]
    /\ UNCHANGED <<cachedToken, tokenExpiry, pendingAuth, fetchCount,
                   fetchResult, now, callerFetch, callerArrival>>
    /\ UNCHANGED <<poolVars, aggVars, retryVars, backoffVars, allocVars, toolVars, procVars, permVars, httpVars>>

\* Time passes.
Tick ==
    /\ now < MaxTime
    /\ now' = now + 1
    /\ UNCHANGED <<cachedToken, tokenExpiry, pendingAuth, fetchCount,
                   fetchResult, callerPc, callerFetch, callerToken,
                   callerArrival>>
    /\ UNCHANGED <<poolVars, aggVars, retryVars, backoffVars, allocVars, toolVars, procVars, permVars, httpVars>>

AuthNext ==
    \/ \E c \in Callers : GetToken(c)
    \/ \E f \in 1..MaxCallers + 1 : FetchSucceeds(f)
    \/ \E f \in 1..MaxCallers + 1 : FetchFails(f)
    \/ \E c \in Callers : CallerResume(c)
    \/ Tick

(* ====================================================================== *)
(* Consensus aggregator (utils/url-aggregator.ts)                         *)
(* ====================================================================== *)

\* A result link is a URL string, held by its parts:
\*   scheme  "http" | "https", or "none" for a string that new URL() rejects
\*   www     the number of leading "www." labels of the host
\*   host    the rest of the host
\*   path    the path segments
\*   slashes the number of "/" that follow the last segment (or the host)
\*   query   the query string without "?", "" when there is none
\*   upper   whether the string is written in upper case
\* so [scheme |-> "http", www |-> 1, host |-> "a", path |-> <<"p">>,
\*     slashes |-> 1, query |-> "", upper |-> TRUE] is "HTTP://WWW.A/P/".
Link(sch, w, h, p, sl, q, up) ==
    [scheme |-> sch, www |-> w, host |-> h, path |-> p, slashes |-> sl,
     query |-> q, upper |-> up]

\* the links the upstream returns while searches are merged result by result
AggLinks ==
    { Link("https", 0, "a", <<"p">>, 0, "", FALSE),    \* https://a/p
      Link("http", 1, "a", <<"p">>, 1, "", TRUE),      \* HTTP://WWW.A/P/
      Link("https", 1, "b", <<>>, 0, "", FALSE) }      \* https://www.b

\* the links of a search that is given as a whole: every spelling of a URL of
\* host a, with or without the path /p
UrlLinks ==
    { Link(sch, w, "a", p, sl, q, up) :
        sch \in {"none", "http", "https"}, w \in 0..1, p \in {<<>>, <<"p">>},
        sl \in 0..2, q \in {"", "q"}, up \in BOOLEAN }

\* result.position as reported by the web search upstream
Positions == {1, 5, 11, 30, 40}

\* A normalized key is the string host ++ path ++ search in lower case, held
\* by the same parts (scheme dropped, upper = FALSE).
\* try: new URL(url); hostname.replace(/^www\./, ''): one leading "www." goes;
\*      the parser gives an empty path the pathname "/";
\*      pathname.replace(/\/$/, '') || '/': one trailing "/" goes, and an
\*      empty remainder becomes "/"; search is kept; toLowerCase().
\* catch: url.toLowerCase().replace(/\/$/, ''): one "/" at the very end of the
\*      string goes (none when a query ends the string); "www." stays.
normalizeUrl(l) ==
    IF l.scheme # "none"
    THEN LET pathSlashes == IF l.path = <<>> THEN Max(1, l.slashes) ELSE l.slashes
             stripped == pathSlashes - (IF pathSlashes > 0 THEN 1 ELSE 0)
         IN  [www |-> l.www - (IF l.www > 0 THEN 1 ELSE 0),
              host |-> l.host,
              path |-> l.path,
              slashes |-> IF l.path = <<>> /\ stripped = 0 THEN 1 ELSE stripped,
              query |-> l.query]
    ELSE [www |-> l.www,
          host |-> l.host,
          path |-> l.path,
          slashes |-> IF l.query = "" /\ l.slashes > 0
                      THEN l.slashes - 1 ELSE l.slashes,
          query |-> l.query]

\* CTR_WEIGHTS (config/index.ts), in hundredths
CTR_WEIGHTS == <<10000, 6000, 4889, 3333, 2889, 2644, 2444, 1778, 1333, 1256>>

\* a faulty variant of getCtrWeight: the weight beyond 10 is not clamped at 0
getCtrWeightUnclamped(position) ==
    IF position >= 1 /\ position <= 10
    THEN CTR_WEIGHTS[position]
    ELSE 1000 - (position - 10) * 50

\* getCtrWeight, in hundredths: the table for 1..10,
\* Math.max(0, 10 - (position - 10) * 0.5) beyond
getCtrWeight(position) ==
    IF position >= 1 /\ position <= 10
    THEN CTR_WEIGHTS[position]
    ELSE Max(0, 1000 - (position - 10) * 50)

\* the title (and snippet, date) of a result: it identifies the occurrence
ResultTitle(q, position) == [q |-> q, p |-> position]

\* the index of the entry of urlMap with this key, 0 when there is none
EntryIndex(m, key) ==
    IF \E k \in 1..Len(m) : m[k].key = key
    THEN CHOOSE k \in 1..Len(m) : m[k].key = key
    ELSE 0

\* a faulty variant of PushQuery: a query is listed once per entry
PushQueryOnce(qs, q) ==
    IF \E k \in 1..Len(qs) : qs[k] = q THEN qs ELSE Append(qs, q)

\* existing.queries.push(search.keyword)
PushQuery(qs, q) == Append(qs, q)

\* a faulty variant of PrevBest: compare against the first position recorded
PrevBestFirstSeen(e) == e.positions[1]

\* const prevBest = existing.bestPosition
PrevBest(e) == e.bestPosition

\* a faulty variant of BestPosition: the latest position is kept
LatestPosition(bestPosition, position) == position

\* Math.min(existing.bestPosition, result.position)
BestPosition(bestPosition, position) == Min(bestPosition, position)

\* the body of the inner loop of aggregateResults / aggregateRedditResults:
\* merge one result (link, position) of search q into the map
MergeResult(m, link, position, q) ==
    LET normalizedUrl == normalizeUrl(link)
        k == EntryIndex(m, normalizedUrl)
    IN  IF k # 0
        THEN LET existing == m[k]
                 prevBest == PrevBest(existing)
                 better == position < prevBest
             IN  [m EXCEPT ![k] =
                    [key |-> existing.key,
                     url |-> existing.url,
                     title |-> IF better THEN ResultTitle(q, position)
                               ELSE existing.title,
                     snippet |-> IF better THEN ResultTitle(q, position)
                                 ELSE existing.snippet,
                     frequency |-> existing.frequency + 1,
                     positions |-> Append(existing.positions, position),
                     queries |-> PushQuery(existing.queries, q),
                     bestPosition |-> BestPosition(existing.bestPosition, position),
                     totalScore |-> existing.totalScore + getCtrWeight(position)]]
        ELSE Append(m,
                    [key |-> normalizedUrl,
                     url |-> link,
                     title |-> ResultTitle(q, position),
                     snippet |-> ResultTitle(q, position),
                     frequency |-> 1,
                     positions |-> <<position>>,
                     queries |-> <<q>>,
                     bestPosition |-> position,
                     totalScore |-> getCtrWeight(position)])

\* a faulty variant of filterByFrequency: nothing is filtered out
filterNothing(m, minFrequency) == m

\* a faulty variant of MeetsMinFrequency: the comparison is strict
ExceedsMinFrequency(frequency, minFrequency) == frequency > minFrequency

\* url.frequency >= minFrequency
MeetsMinFrequency(frequency, minFrequency) == frequency >= minFrequency

\* filterByFrequency / filterRedditByFrequency: the entries, in map order,
\* whose frequency is at least minFrequency
filterByFrequency(m, minFrequency) ==
    SelectSeq(m, LAMBDA e : MeetsMinFrequency(e.frequency, minFrequency))

\* a faulty variant of InsertByScore: an unstable sort, in which an entry goes
\* in front of the entries of equal score
RECURSIVE InsertBeforeEqual(_, _)
InsertBeforeEqual(sorted, e) ==
    IF sorted = <<>> THEN <<e>>
    ELSE IF Head(sorted).totalScore > e.totalScore
         THEN <<Head(sorted)>> \o InsertBeforeEqual(Tail(sorted), e)
         ELSE <<e>> \o sorted

\* [...urls].sort((a, b) => b.totalScore - a.totalScore): Array.prototype.sort
\* is stable, so an entry goes behind every entry whose score is not lower
RECURSIVE InsertByScore(_, _)
InsertByScore(sorted, e) ==
    IF sorted = <<>> THEN <<e>>
    ELSE IF Head(sorted).totalScore >= e.totalScore
         THEN <<Head(sorted)>> \o InsertByScore(Tail(sorted), e)
         ELSE <<e>> \o sorted

RECURSIVE SortByScore(_)
SortByScore(urls) ==
    IF urls = <<>> THEN <<>>
    ELSE InsertByScore(SortByScore(SubSeq(urls, 1, Len(urls) - 1)),
                       urls[Len(urls)])

\* the frequency from which calculateWeightedScores marks consensus (3) and
\* calculateRedditWeightedScores does (2)
ConsensusFrequency(d) == IF d = "web" THEN 3 ELSE 2

\* a faulty variant of MaxScoreOf: the score of the last entry of the sorted list
MaxScoreOfLast(sorted) == sorted[Len(sorted)].totalScore

\* const maxScore = sorted[0].totalScore
MaxScoreOf(sorted) == sorted[1].totalScore

\* calculateWeightedScores / calculateRedditWeightedScores. The normalized
\* score (url.totalScore / maxScore) * 100 is held as a whole percentage
\* (rounded down); it is exact when totalScore = maxScore.
calculateWeightedScores(d, urls) ==
    IF Len(urls) = 0 THEN <<>>
    ELSE LET sorted == SortByScore(urls)
             maxScore == MaxScoreOf(sorted)
         IN  [index \in 1..Len(sorted) |->
                [url |-> sorted[index].url,
                 key |-> sorted[index].key,
                 title |-> sorted[index].title,
                 snippet |-> sorted[index].snippet,
                 rank |-> index,
                 score |-> IF maxScore > 0
                           THEN (sorted[index].totalScore * 100) \div maxScore
                           ELSE 0,
                 frequency |-> sorted[index].frequency,
                 positions |-> sorted[index].positions,
                 queries |-> sorted[index].queries,
                 bestPosition |-> sorted[index].bestPosition,
                 isConsensus |-> sorted[index].frequency >= ConsensusFrequency(d)]]

\* a faulty variant of Thresholds: the thresholds are tried in ascending order
ThresholdsAscending(d) == IF d = "web" THEN <<1, 2, 3>> ELSE <<1, 2>>

\* const thresholds = [3, 2, 1] (web), [2, 1] (Reddit)
Thresholds(d) == IF d = "web" THEN <<3, 2, 1>> ELSE <<2, 1>>

\* let usedThreshold = 3 (web), 2 (Reddit)
DefaultThreshold(d) == IF d = "web" THEN 3 ELSE 2

\* a faulty variant of NoteAttached: the web condition used for both domains
NoteBelowThree(d, threshold, totalQueries) == threshold < 3

\* the condition under which the note is attached once a threshold is accepted
NoteAttached(d, threshold, totalQueries) ==
    IF d = "web" THEN threshold < 3
    ELSE threshold < 2 /\ totalQueries > 1

\* the for loop over the thresholds, from the k-th on; `ranked` is the
\* rankedUrls left by the previous iteration
RECURSIVE ThresholdLoop(_, _, _, _, _, _)
ThresholdLoop(d, m, minUrls, totalQueries, k, ranked) ==
    IF k > Len(Thresholds(d))
    THEN [rankedUrls |-> ranked,
          frequencyThreshold |-> DefaultThreshold(d),
          thresholdNote |-> FALSE]
    ELSE LET threshold == Thresholds(d)[k]
             filtered == filterByFrequency(m, threshold)
             rankedUrls == calculateWeightedScores(d, filtered)
         IN  IF Len(rankedUrls) >= minUrls \/ threshold = 1
             THEN [rankedUrls |-> rankedUrls,
                   frequencyThreshold |-> threshold,
                   thresholdNote |-> NoteAttached(d, threshold, totalQueries)]
             ELSE ThresholdLoop(d, m, minUrls, totalQueries, k + 1, rankedUrls)

\* aggregateAndRank / aggregateAndRankReddit on the merged map
aggregateAndRank(d, m, minUrls, totalQueries) ==
    LET r == ThresholdLoop(d, m, minUrls, totalQueries, 1, <<>>)
    IN  [rankedUrls |-> r.rankedUrls,
         totalUniqueUrls |-> Len(m),
         totalQueries |-> totalQueries,
         frequencyThreshold |-> r.frequencyThreshold,
         thresholdNote |-> r.thresholdNote]

\* the aggregation before aggregateAndRank has returned
NoAggregation ==
    [rankedUrls |-> <<>>, totalUniqueUrls |-> 0, totalQueries |-> 0,
     frequencyThreshold |-> 0, thresholdNote |-> FALSE]

\* the number of results merged so far
RECURSIVE TotalMerged(_)
TotalMerged(m) ==
    IF m = <<>> THEN 0 ELSE Head(m).frequency + TotalMerged(Tail(m))

AggInit ==
    /\ domain \in {"web", "reddit"}
    /\ minConsensusUrls = 0
    /\ urlMap = <<>>
    /\ curQuery = 0
    /\ curPos = 0
    /\ linkPair = <<>>
    /\ aggPc = "merging"
    /\ aggregation = NoAggregation

\* the state of the aggregator in a specification that never calls it
AggOff ==
    /\ domain = "web"
    /\ minConsensusUrls = 0
    /\ urlMap = <<>>
    /\ curQuery = 0
    /\ curPos = 0
    /\ linkPair = <<>>
    /\ aggPc = "merging"
    /\ aggregation = NoAggregation

\* the outer loop moves to the next search
NextSearch ==
    /\ aggPc = "merging"
    /\ curQuery < MaxQueries
    /\ curQuery' = curQuery + 1
    /\ curPos' = 0
    /\ UNCHANGED <<domain, minConsensusUrls, urlMap, linkPair, aggPc,
                   aggregation>>
    /\ UNCHANGED <<poolVars, authVars, retryVars, backoffVars, allocVars, toolVars, procVars, permVars, httpVars>>

\* one turn of the inner loop: the next result of the current search is
\* merged. A web result carries its position; a Reddit result's position is
\* its index in the list plus one.
Merge(link, position) ==
    /\ aggPc = "merging"
    /\ curQuery >= 1
    /\ TotalMerged(urlMap) < MaxResults
    /\ link \in AggLinks
    /\ IF domain = "web" THEN position \in Positions
       ELSE position = curPos + 1
    /\ urlMap' = MergeResult(urlMap, link, position, curQuery)
    /\ curPos' = curPos + 1
    /\ UNCHANGED <<domain, minConsensusUrls, curQuery, linkPair, aggPc,
                   aggregation>>
    /\ UNCHANGED <<poolVars, authVars, retryVars, backoffVars, allocVars, toolVars, procVars, permVars, httpVars>>

\* the loops are over: thresholds are tried against the caller's
\* minConsensusUrls (read here for the first time) and the result is returned
Rank(minUrls) ==
    /\ aggPc = "merging"
    /\ minConsensusUrls' = minUrls
    /\ aggregation' = aggregateAndRank(domain, urlMap, minUrls, curQuery)
    /\ aggPc' = "ranked"
    /\ UNCHANGED <<domain, urlMap, curQuery, curPos, linkPair>>
    /\ UNCHANGED <<poolVars, authVars, retryVars, backoffVars, allocVars, toolVars, procVars, permVars, httpVars>>

\* the values of minConsensusUrls tried
MinUrlsValues == 1..2

\* aggregateResults on a single search whose results are the two links of
\* linkPair, at positions 1 and 2: both turns of the inner loop
MergePair ==
    /\ aggPc = "merging"
    /\ Len(linkPair) = 2
    /\ curQuery = 0
    /\ curQuery' = 1
    /\ curPos' = 2
    /\ urlMap' = MergeResult(MergeResult(urlMap, linkPair[1], 1, 1),
                             linkPair[2], 2, 1)
    /\ UNCHANGED <<domain, minConsensusUrls, linkPair, aggPc, aggregation>>
    /\ UNCHANGED <<poolVars, authVars, retryVars, backoffVars, allocVars, toolVars, procVars, permVars, httpVars>>

AggNext ==
    \/ NextSearch
    \/ \E link \in AggLinks, position \in Positions \cup (1..MaxResults) :
          Merge(link, position)
    \/ \E minUrls \in MinUrlsValues : Rank(minUrls)

\* a single search of two results, given as a whole
UrlInit ==
    /\ domain \in {"web", "reddit"}
    /\ minConsensusUrls = 0
    /\ urlMap = <<>>
    /\ curQuery = 0
    /\ curPos = 0
    /\ linkPair \in UrlLinks \X UrlLinks
    /\ aggPc = "merging"
    /\ aggregation = NoAggregation

UrlNext ==
    \/ MergePair
    \/ \E minUrls \in MinUrlsValues : Rank(minUrls)

(* ====================================================================== *)
(* Retry loops: ResearchClient.research / executeResearch                 *)
(* (clients/research.ts) and processContentWithLLM                        *)
(* (services/llm-processor.ts)                                            *)
(* ====================================================================== *)

RESEARCH_RETRY_CONFIG ==
    [maxRetries |-> 3, baseDelayMs |-> 5000, maxDelayMs |-> 60000]

LLM_RETRY_CONFIG ==
    [maxRetries |-> 3, baseDelayMs |-> 2000, maxDelayMs |-> 30000]

RETRYABLE_RESEARCH_CODES == {429, 500, 502, 503, 504}

\* the maxRetries of the loop the call runs
MaxRetries ==
    IF input.fn = "research" THEN RESEARCH_RETRY_CONFIG.maxRetries
    ELSE LLM_RETRY_CONFIG.maxRetries

\* err.status of a thrown error; 0 stands for an error without a status
Statuses == {0, 401, 403, 404, 429, 503}

\* What one upstream chat.completions.create call can do: resolve with
\* content, resolve with a choice of empty content ("blank"), resolve without
\* any choice ("nochoice"), or throw an error.  Of an error the loops read
\* the status, whether the message contains one of the retry patterns of the
\* function at hand, and (processContentWithLLM only) whether err.code,
\* err.error.code or err.error.type is one of RETRYABLE_LLM_ERROR_CODES.
Outcome(kind) ==
    [kind |-> kind, status |-> 0, pattern |-> FALSE, code |-> FALSE]

UpstreamErrors ==
    [kind : {"error"}, status : Statuses, pattern : BOOLEAN, code : BOOLEAN]

UpstreamOutcomes ==
    {Outcome("content"), Outcome("blank"), Outcome("nochoice")}
        \cup UpstreamErrors

\* the error a call throws once its signal has fired ("Request was aborted.")
AbortError == Outcome("error")

\* ResearchClient.isRetryableError
isRetryableError(e) ==
    \/ e.status # 0 /\ e.status \in RETRYABLE_RESEARCH_CODES
    \/ e.pattern

\* isRetryableLLMError
isRetryableLLMError(e) ==
    \/ e.status \in {429, 500, 502, 503, 504}
    \/ e.code
    \/ e.pattern

\* StructuredError values; NoError stands for undefined
NoError == [code |-> "none", cause |-> Outcome("none")]

StructuredError(code, o) == [code |-> code, cause |-> o]

\* classifyError(error) belongs to utils/errors, which the retry loops
\* import; of its result the loops use nothing but its presence.
classifyError(e) == StructuredError("classified", e)

\* String.prototype.trim on the strings used here
Trim(str) == IF str = " " THEN "" ELSE str

\* attempt < maxRetries, the second half of both retry conditions
MayRetry(a, max) == a < max

\* a faulty variant of WithinRetries: the loop stops one attempt early
StopsOneEarly(a, max) == a < max

\* attempt <= maxRetries, the condition of both for loops
WithinRetries(a, max) == a <= max

\* sleep(delayMs, signal) belongs to utils/errors: a sleep given a signal
\* rejects as soon as the signal has fired (research.ts gives it no signal)
SleepRejects == input.fn = "llm" /\ signalAborted

\* a faulty variant of SleepAbortCaught: the rejection of the aborted sleep
\* leaves processContentWithLLM
SleepAbortEscapes == FALSE

\* try { await sleep(delayMs, signal); } catch { break; }
SleepAbortCaught == TRUE

\* the response object executeResearch returns from inside the try block
SuccessResponse(o) ==
    [content |-> IF o.kind = "content" THEN "answer" ELSE "",
     error |-> NoError]

\* the error response executeResearch returns after the loop
ErrorResponse(err) ==
    [content |-> "",
     error |-> IF err = NoError
               THEN StructuredError("UNKNOWN_ERROR", Outcome("none"))
               ELSE err]

\* content || '' : the empty string for a falsy content, else the content
ContentOrEmpty(content) == IF content = "" THEN "" ELSE content

\* content.length > maxInputChars
OverMaxInputChars(content) == content = "longpage"

\* truncatedContent: the first maxInputChars characters and the notice for a
\* content over the limit, else the content
TruncatedContent(content) ==
    IF OverMaxInputChars(content)
    THEN "longp[Content truncated due to length]"
    ELSE content

\* a faulty variant of FallbackContent: the text sent upstream is returned
FallbackTruncated(content, truncatedContent) == truncatedContent

\* `content, // Return original content as fallback`: of the two texts the
\* function holds, the failure results carry the original one
FallbackContent(content, truncatedContent) == content

\* the result processContentWithLLM returns after the loop
LLMFailure(err) ==
    [content |-> FallbackContent(input.content, TruncatedContent(input.content)),
     processed |-> FALSE, error |-> TRUE,
     errorDetails |-> IF err = NoError
                      THEN StructuredError("UNKNOWN_ERROR", Outcome("none"))
                      ELSE err]

NoResult == [content |-> "", none |-> TRUE]

ResearchInputs ==
    [fn : {"research"}, question : {"", " ", "q"}, fallback : BOOLEAN]

LLMInputs ==
    [fn : {"llm"}, use_llm : BOOLEAN, processor : BOOLEAN,
     content : {"", " ", "page", "longpage"}]

RetryInit ==
    /\ input \in ResearchInputs \cup LLMInputs
    /\ retryPc = "start"
    /\ model = "primary"
    /\ attempt = 0
    /\ calls = [primary |-> 0, fallback |-> 0]
    /\ lastOutcome = [primary |-> Outcome("none"), fallback |-> Outcome("none")]
    /\ lastError = NoError
    /\ primaryResult = NoResult
    /\ retryResult = NoResult
    /\ signalAborted \in (IF input.fn = "llm" THEN BOOLEAN ELSE {FALSE})

RetryOff ==
    /\ input = [fn |-> "none"]
    /\ retryPc = "off"
    /\ model = "primary"
    /\ attempt = 0
    /\ calls = [primary |-> 0, fallback |-> 0]
    /\ lastOutcome = [primary |-> Outcome("none"), fallback |-> Outcome("none")]
    /\ lastError = NoError
    /\ primaryResult = NoResult
    /\ retryResult = NoResult
    /\ signalAborted = FALSE

\* research() up to its first await: the validation of the question and the
\* first upstream call of the primary model
Research ==
    /\ retryPc = "start"
    /\ input.fn = "research"
    /\ IF Trim(input.question) = ""
       THEN /\ retryPc' = "done"
            /\ retryResult' =
                  [content |-> "",
                   error |-> StructuredError("INVALID_INPUT", Outcome("none"))]
            /\ UNCHANGED calls
       ELSE /\ retryPc' = "calling"
            /\ calls' = [calls EXCEPT !.primary = @ + 1]
            /\ UNCHANGED retryResult
    /\ UNCHANGED <<input, model, attempt, lastOutcome, lastError,
                   primaryResult, signalAborted>>
    /\ UNCHANGED <<poolVars, authVars, aggVars, backoffVars, allocVars, toolVars, procVars, permVars, httpVars>>

\* processContentWithLLM up to its first await: the early returns and the
\* first upstream call
ProcessContentWithLLM ==
    /\ retryPc = "start"
    /\ input.fn = "llm"
    /\ IF ~input.use_llm
       THEN /\ retryPc' = "done"
            /\ retryResult' = [content |-> input.content, processed |-> FALSE,
                               error |-> FALSE, errorDetails |-> NoError]
            /\ UNCHANGED calls
       ELSE IF ~input.processor
       THEN /\ retryPc' = "done"
            /\ retryResult' =
                  [content |-> input.content, processed |-> FALSE,
                   error |-> TRUE,
                   errorDetails |-> StructuredError("AUTH_ERROR", Outcome("none"))]
            /\ UNCHANGED calls
       ELSE IF Trim(input.content) = ""
       THEN /\ retryPc' = "done"
            /\ retryResult' = [content |-> ContentOrEmpty(input.content),
                               processed |-> FALSE,
                               error |-> TRUE, errorDetails |-> NoError]
            /\ UNCHANGED calls
       ELSE /\ retryPc' = "calling"
            /\ calls' = [calls EXCEPT !.primary = @ + 1]
            /\ UNCHANGED retryResult
    /\ UNCHANGED <<input, model, attempt, lastOutcome, lastError,
                   primaryResult, signalAborted>>
    /\ UNCHANGED <<poolVars, authVars, aggVars, backoffVars, allocVars, toolVars, procVars, permVars, httpVars>>

\* the loop sleeps before its next attempt, lastError being err
Sleep(err) ==
    /\ retryPc' = "sleeping"
    /\ lastError' = err
    /\ UNCHANGED <<model, attempt, calls, primaryResult, retryResult>>

\* executeResearch returns res to research(), its lastError being err:
\* research() returns a result without error, starts the fallback model after
\* a failure of the primary one, or returns the failure
ExecuteReturns(res, err) ==
    IF model = "primary" /\ res.error # NoError /\ input.fallback
    THEN /\ primaryResult' = res
         /\ model' = "fallback"
         /\ attempt' = 0
         /\ lastError' = NoError
         /\ calls' = [calls EXCEPT !.fallback = @ + 1]
         /\ retryPc' = "calling"
         /\ UNCHANGED retryResult
    ELSE /\ retryPc' = "done"
         /\ lastError' = err
         /\ retryResult' =
               IF res.error = NoError THEN res
               ELSE IF model = "fallback"
                    THEN [res EXCEPT !.content = "Research failed with both models"]
                    ELSE [res EXCEPT !.content = "Research failed"]
         /\ primaryResult' = IF model = "primary" THEN res ELSE primaryResult
         /\ UNCHANGED <<model, attempt, calls>>

\* processContentWithLLM returns res, its lastError being err
LLMReturns(res, err) ==
    /\ retryPc' = "done"
    /\ lastError' = err
    /\ retryResult' = res
    /\ UNCHANGED <<model, attempt, calls, primaryResult>>

\* executeResearch after its upstream call ended as o (lines 389-447)
ResearchCallReturns(o) ==
    IF o.kind = "nochoice"
    THEN IF MayRetry(attempt, RESEARCH_RETRY_CONFIG.maxRetries)
         THEN Sleep(StructuredError("INTERNAL_ERROR", o))
         ELSE ExecuteReturns(SuccessResponse(o),
                             StructuredError("INTERNAL_ERROR", o))
    ELSE IF o.kind = "error"
    THEN IF isRetryableError(o)
            /\ MayRetry(attempt, RESEARCH_RETRY_CONFIG.maxRetries)
         THEN Sleep(classifyError(o))
         ELSE ExecuteReturns(ErrorResponse(classifyError(o)), classifyError(o))
    ELSE ExecuteReturns(SuccessResponse(o), lastError)

\* processContentWithLLM after its upstream call ended as o (lines 179-215)
LLMCallReturns(o) ==
    IF o.kind = "content"
    THEN LLMReturns([content |-> "extracted", processed |-> TRUE,
                     error |-> FALSE, errorDetails |-> NoError], lastError)
    ELSE IF o.kind = "error"
    THEN IF isRetryableLLMError(o)
            /\ MayRetry(attempt, LLM_RETRY_CONFIG.maxRetries)
         THEN Sleep(classifyError(o))
         ELSE LLMReturns(LLMFailure(classifyError(o)), classifyError(o))
    ELSE LLMReturns([content |-> FallbackContent(input.content,
                                                 TruncatedContent(input.content)),
                     processed |-> FALSE,
                     error |-> TRUE,
                     errorDetails |-> StructuredError("INTERNAL_ERROR", o)],
                    lastError)

\* the pending upstream call ends as o and the function runs to its next
\* await or to its return; a call whose signal has fired throws the abort
\* error
CallReturns(o) ==
    /\ retryPc = "calling"
    /\ signalAborted => o = AbortError
    /\ lastOutcome' = [lastOutcome EXCEPT ![model] = o]
    /\ IF input.fn = "research" THEN ResearchCallReturns(o)
       ELSE LLMCallReturns(o)
    /\ UNCHANGED <<input, signalAborted>>
    /\ UNCHANGED <<poolVars, authVars, aggVars, backoffVars, allocVars, toolVars, procVars, permVars, httpVars>>

\* the backoff sleep ends: by its timer, and the loop goes on to its next
\* attempt; or, in processContentWithLLM, by the signal, and the loop breaks
SleepEnds ==
    /\ retryPc = "sleeping"
    /\ IF SleepRejects
       THEN IF SleepAbortCaught
            THEN LLMReturns(LLMFailure(lastError), lastError)
            ELSE /\ retryPc' = "rejected"
                 /\ UNCHANGED <<model, attempt, calls, lastError,
                                primaryResult, retryResult>>
       ELSE IF WithinRetries(attempt + 1, MaxRetries)
       THEN /\ retryPc' = "calling"
            /\ attempt' = attempt + 1
            /\ calls' = [calls EXCEPT ![model] = @ + 1]
            /\ UNCHANGED <<model, lastError, primaryResult, retryResult>>
       ELSE IF input.fn = "research"
       THEN ExecuteReturns(ErrorResponse(lastError), lastError)
       ELSE LLMReturns(LLMFailure(lastError), lastError)
    /\ UNCHANGED <<input, lastOutcome, signalAborted>>
    /\ UNCHANGED <<poolVars, authVars, aggVars, backoffVars, allocVars, toolVars, procVars, permVars, httpVars>>

\* the caller's AbortSignal fires while processContentWithLLM is waiting
Abort ==
    /\ input.fn = "llm"
    /\ retryPc \in {"calling", "sleeping"}
    /\ ~signalAborted
    /\ signalAborted' = TRUE
    /\ UNCHANGED <<input, retryPc, model, attempt, calls, lastOutcome,
                   lastError, primaryResult, retryResult>>
    /\ UNCHANGED <<poolVars, authVars, aggVars, backoffVars, allocVars, toolVars, procVars, permVars, httpVars>>

RetryNext ==
    \/ Research
    \/ ProcessContentWithLLM
    \/ \E o \in UpstreamOutcomes : CallReturns(o)
    \/ SleepEnds
    \/ Abort

(* ====================================================================== *)
(* Backoff: ResearchClient.calculateBackoff and calculateLLMBackoff       *)
(* ====================================================================== *)

\* the retry configuration each backoff function reads
RetryConfig(f) ==
    IF f = "research" THEN RESEARCH_RETRY_CONFIG ELSE LLM_RETRY_CONFIG

\* Math.pow(2, attempt)
RECURSIVE Pow2(_)
Pow2(n) == IF n = 0 THEN 1 ELSE 2 * Pow2(n - 1)

\* a faulty variant of ExponentialDelay: the delay does not grow
ConstantDelay(f, a) == RetryConfig(f).baseDelayMs

\* const exponentialDelay = baseDelayMs * Math.pow(2, attempt)
ExponentialDelay(f, a) == RetryConfig(f).baseDelayMs * Pow2(a)

\* Math.random(), in hundredths: 0 <= Math.random() < 1
RandomHundredths == 0..99

\* const jitter = Math.random() * 0.3 * exponentialDelay
\* (exponentialDelay is a multiple of 1000, so the value is a whole number)
Jitter(r, exponentialDelay) == (r * 3 * exponentialDelay) \div 1000

\* a faulty variant of CappedDelay: the delay is not capped
UncappedDelay(f, d) == d

\* Math.min(exponentialDelay + jitter, maxDelayMs)
CappedDelay(f, d) == Min(d, RetryConfig(f).maxDelayMs)

BackoffInit ==
    /\ bFn \in {"research", "llm"}
    /\ bAttempt = -1
    /\ bExponential = 0
    /\ bJitter = 0
    /\ bDelay = 0
    /\ bPrevExponential = 0

BackoffOff ==
    /\ bFn = "none"
    /\ bAttempt = -1
    /\ bExponential = 0
    /\ bJitter = 0
    /\ bDelay = 0
    /\ bPrevExponential = 0

\* calculateBackoff(attempt) / calculateLLMBackoff(attempt) for the next
\* attempt of the operation, Math.random() returning r hundredths
CalculateBackoff(r) ==
    /\ bAttempt < MaxAttempt
    /\ bAttempt' = bAttempt + 1
    /\ bExponential' = ExponentialDelay(bFn, bAttempt + 1)
    /\ bJitter' = Jitter(r, bExponential')
    /\ bDelay' = CappedDelay(bFn, bExponential' + bJitter')
    /\ bPrevExponential' = bExponential
    /\ UNCHANGED bFn
    /\ UNCHANGED <<poolVars, authVars, aggVars, retryVars, allocVars, toolVars, procVars, permVars, httpVars>>

BackoffNext == \E r \in RandomHundredths : CalculateBackoff(r)

(* ====================================================================== *)
(* Budget allocation: calculateTokenAllocation (tools/research.ts),       *)
(* calculateCommentAllocation (clients/reddit) and its use by             *)
(* handleGetRedditPosts (tools/reddit.ts)                                 *)
(* ====================================================================== *)

REDDIT ==
    [MAX_COMMENT_BUDGET |-> 1000, MAX_COMMENTS_PER_POST |-> 200,
     MIN_POSTS |-> 2, MAX_POSTS |-> 50]

TOTAL_TOKEN_BUDGET == 32000

\* JavaScript numbers: the whole numbers, Infinity and NaN
Finite(v) == [kind |-> "finite", value |-> v]

Infinity == [kind |-> "Infinity", value |-> 0]

NaN == [kind |-> "NaN", value |-> 0]

\* Math.floor(a / b) for whole numbers a >= 0 and b >= 0
FloorDiv(a, b) ==
    IF b = 0 THEN (IF a = 0 THEN NaN ELSE Infinity)
    ELSE Finite(a \div b)

\* a faulty variant of calculateTokenAllocation: the quotient rounded up
calculateTokenAllocationCeil(budget, count) ==
    IF count = 0 THEN (IF budget = 0 THEN NaN ELSE Infinity)
    ELSE Finite((budget + count - 1) \div count)

\* calculateTokenAllocation: Math.floor(TOTAL_TOKEN_BUDGET / questionCount),
\* the budget made an argument
calculateTokenAllocation(budget, count) == FloorDiv(budget, count)

\* the list of n copies of v
Repeat(v, n) == [i \in 1..n |-> v]

RECURSIVE SumSeq(_)
SumSeq(q) == IF q = <<>> THEN 0 ELSE Head(q) + SumSeq(Tail(q))

\* a faulty variant of RaiseUpToCap: the share is added whatever the cap
RaisePastCap(alloc, share, cap) == alloc + share

\* the second pass raises a capped unit by its share of the leftover, up to
\* the cap
RaiseUpToCap(alloc, share, cap) == Min(alloc + share, cap)

\* calculateCommentAllocation belongs to the Reddit client.  The capped
\* allocation with two-pass redistribution: naive = floor(T / n), each unit
\* capped at min(naive, cap), leftover = T - sum of the capped allocations;
\* when there is leftover and some unit was capped (naive > cap), the
\* leftover is shared evenly among the capped units, each raised up to cap
\* at most; what remains is forfeited.
AllocationPlan(total, n, cap) ==
    LET naive == total \div n
        capped == Repeat(Min(naive, cap), n)
        leftover == total - SumSeq(capped)
        eligible == {i \in 1..n : naive > cap}
        share == IF eligible = {} THEN 0
                 ELSE leftover \div Cardinality(eligible)
        final == [i \in 1..n |->
                     IF leftover > 0 /\ i \in eligible
                     THEN RaiseUpToCap(capped[i], share, cap)
                     ELSE capped[i]]
    IN  [naive |-> naive, perPostCapped |-> Min(naive, cap),
         firstPass |-> capped, leftover |-> leftover, final |-> final,
         forfeited |-> total - SumSeq(final)]

\* calculateCommentAllocation(postCount), on the REDDIT budget and cap
calculateCommentAllocation(postCount) ==
    AllocationPlan(REDDIT.MAX_COMMENT_BUDGET, postCount,
                   REDDIT.MAX_COMMENTS_PER_POST)

\* fetchComments ? (maxCommentsOverride || allocation.perPostCapped) : 0
\* (an absent override is 0 here)
CommentsPerPost(fetchComments, maxCommentsOverride, perPostCapped) ==
    IF ~fetchComments THEN 0
    ELSE IF maxCommentsOverride # 0 THEN maxCommentsOverride
         ELSE perPostCapped

\* total budgets, per-unit caps and max_comments overrides of the calls
Budgets == {0, 1, 7, 1000, 32000}

Caps == {1, 3, 200}

Overrides == {0, 1, 150, 200, 201, 500}

TokenArgs == [budget : Budgets, count : 0..MaxUnits]

PlanArgs == [total : Budgets, n : 1..MaxUnits, cap : Caps]

RedditArgs ==
    [urls : 0..(REDDIT.MAX_POSTS + 1), fetchComments : BOOLEAN,
     maxCommentsOverride : Overrides, use_llm : BOOLEAN]

NoOutput == [none |-> TRUE]

AllocInit ==
    /\ aFn \in {"tokens", "plan", "reddit"}
    /\ aArgs \in (IF aFn = "tokens" THEN TokenArgs
                  ELSE IF aFn = "plan" THEN PlanArgs ELSE RedditArgs)
    /\ aPc = "called"
    /\ aOut = NoOutput

AllocOff ==
    /\ aFn = "none"
    /\ aArgs = NoOutput
    /\ aPc = "off"
    /\ aOut = NoOutput

\* calculateTokenAllocation(count) on a budget
TokenAllocation ==
    /\ aPc = "called"
    /\ aFn = "tokens"
    /\ aPc' = "done"
    /\ aOut' = [perUnit |-> calculateTokenAllocation(aArgs.budget, aArgs.count)]
    /\ UNCHANGED <<aFn, aArgs>>
    /\ UNCHANGED <<poolVars, authVars, aggVars, retryVars, backoffVars, toolVars, procVars, permVars, httpVars>>

\* the capped allocation of a total over n units
CommentAllocation ==
    /\ aPc = "called"
    /\ aFn = "plan"
    /\ aPc' = "done"
    /\ aOut' = AllocationPlan(aArgs.total, aArgs.n, aArgs.cap)
    /\ UNCHANGED <<aFn, aArgs>>
    /\ UNCHANGED <<poolVars, authVars, aggVars, retryVars, backoffVars, toolVars, procVars, permVars, httpVars>>

\* handleGetRedditPosts up to client.batchGetPosts(urls, commentsPerPost,
\* fetchComments): the validation of the post count, the comments requested
\* per post and the tokens per URL
HandleGetRedditPosts ==
    /\ aPc = "called"
    /\ aFn = "reddit"
    /\ aPc' = "done"
    /\ aOut' =
          IF aArgs.urls < REDDIT.MIN_POSTS
          THEN [error |-> "MIN_POSTS", commentsPerPost |-> 0,
                tokensPerUrl |-> Finite(0)]
          ELSE IF aArgs.urls > REDDIT.MAX_POSTS
          THEN [error |-> "MAX_POSTS", commentsPerPost |-> 0,
                tokensPerUrl |-> Finite(0)]
          ELSE [error |-> "none",
                commentsPerPost |->
                    CommentsPerPost(aArgs.fetchComments,
                        aArgs.maxCommentsOverride,
                        calculateCommentAllocation(aArgs.urls).perPostCapped),
                tokensPerUrl |->
                    IF aArgs.use_llm
                    THEN FloorDiv(TOTAL_TOKEN_BUDGET, aArgs.urls)
                    ELSE Finite(0)]
    /\ UNCHANGED <<aFn, aArgs>>
    /\ UNCHANGED <<poolVars, authVars, aggVars, retryVars, backoffVars, toolVars, procVars, permVars, httpVars>>

AllocNext ==
    \/ TokenAllocation
    \/ CommentAllocation
    \/ HandleGetRedditPosts

(* ====================================================================== *)
(* CallTool request handlers: registerToolHandlers (index.ts) and the     *)
(* tool callback of ResearchPowerpackMCP.init (worker.ts)                 *)
(* ====================================================================== *)

Requests == 1..MaxRequests

\* what can be thrown at the handler: McpError instances, other Error
\* instances and values that are no Error at all
Thrown(class) == [class |-> class]

ThrownValues ==
    {Thrown("McpError"), Thrown("Error"), Thrown("TypeError"),
     Thrown("string"), Thrown("undefined")}

\* how executeTool settles: with a result, with a result marked isError, or
\* by throwing
ToolResult(isError) == [isError |-> isError, error |-> NoError]

ToolSettlements ==
    {[kind |-> "result", result |-> ToolResult(e), value |-> Thrown("none")]
        : e \in BOOLEAN}
    \cup {[kind |-> "throw", result |-> ToolResult(FALSE), value |-> v]
             : v \in ThrownValues}

NotSettled ==
    [kind |-> "none", result |-> ToolResult(FALSE), value |-> Thrown("none")]

\* a faulty variant of IsMcpError: every Error instance is rethrown
IsError(v) == v.class \in {"McpError", "Error", "TypeError"}

\* error instanceof McpError
IsMcpError(v) == v.class = "McpError"

\* createToolErrorFromStructured(structuredError) belongs to utils/errors:
\* the tool-error result that carries the structured error
createToolErrorFromStructured(structuredError) ==
    [isError |-> TRUE, error |-> structuredError]

\* the isError result the worker callback builds from the error message
WorkerErrorResult(v) ==
    [isError |-> TRUE, error |-> StructuredError("message", v)]

ToolInit ==
    /\ tEntry \in {"index", "worker"}
    /\ tPc = [r \in Requests |-> "idle"]
    /\ tSettled = [r \in Requests |-> NotSettled]
    /\ tResponse = [r \in Requests |-> NotSettled]

ToolOff ==
    /\ tEntry = "none"
    /\ tPc = <<>>
    /\ tSettled = <<>>
    /\ tResponse = <<>>

\* a CallTool request arrives: the handler calls executeTool and awaits it
CallTool(r) ==
    /\ tPc[r] = "idle"
    /\ tPc' = [tPc EXCEPT ![r] = "executing"]
    /\ UNCHANGED <<tEntry, tSettled, tResponse>>
    /\ UNCHANGED <<poolVars, authVars, aggVars, retryVars, backoffVars, allocVars, procVars, permVars, httpVars>>

\* executeTool settles as o and the handler finishes: it returns the result,
\* rethrows (index.ts, McpError only) or returns the converted error
ExecuteToolSettles(r, o) ==
    /\ tPc[r] = "executing"
    /\ tSettled' = [tSettled EXCEPT ![r] = o]
    /\ IF o.kind = "result"
       THEN /\ tPc' = [tPc EXCEPT ![r] = "returned"]
            /\ tResponse' = [tResponse EXCEPT ![r] = o.result]
       ELSE IF tEntry = "index" /\ IsMcpError(o.value)
       THEN /\ tPc' = [tPc EXCEPT ![r] = "rethrown"]
            /\ tResponse' = [tResponse EXCEPT ![r] = o.value]
       ELSE /\ tPc' = [tPc EXCEPT ![r] = "returned"]
            /\ tResponse' = [tResponse EXCEPT ![r] =
                  IF tEntry = "index"
                  THEN createToolErrorFromStructured(classifyError(o.value))
                  ELSE WorkerErrorResult(o.value)]
    /\ UNCHANGED tEntry
    /\ UNCHANGED <<poolVars, authVars, aggVars, retryVars, backoffVars, allocVars, procVars, permVars, httpVars>>

ToolNext ==
    \/ \E r \in Requests : CallTool(r)
    \/ \E r \in Requests, o \in ToolSettlements : ExecuteToolSettles(r, o)

(* ====================================================================== *)
(* Process lifetime (index.ts): gracefulShutdown, exitOnBrokenPipe, the   *)
(* uncaughtException / unhandledRejection handlers and the SIGTERM,       *)
(* SIGINT and stdin handlers                                              *)
(* ====================================================================== *)

\* exitStatus while process.exit has not been called
Running == -1

\* how server.close() can settle: it resolves, rejects, or rejects with a
\* broken-pipe-like error
CloseOutcomes == {"closed", "failed", "brokenPipe"}

\* a faulty variant of AlreadyShuttingDown: the guard is missing
ShutdownUnguarded == FALSE

\* if (isShuttingDown) return;
AlreadyShuttingDown == isShuttingDown

\* process.exit(fatalHandlerInProgress ? 1 : 0)
BrokenPipeExitCode == IF fatalHandlerInProgress THEN 1 ELSE 0

ProcInit ==
    /\ isShuttingDown = FALSE
    /\ fatalHandlerInProgress = FALSE
    /\ streamExitInProgress = FALSE
    /\ sigintListener = TRUE
    /\ closePc = "none"
    /\ shutdownExitCode = Running
    /\ closeCalls = 0
    /\ exitStatus = Running
    /\ procEvents = <<>>

ProcOff ==
    /\ isShuttingDown = FALSE
    /\ fatalHandlerInProgress = FALSE
    /\ streamExitInProgress = FALSE
    /\ sigintListener = FALSE
    /\ closePc = "off"
    /\ shutdownExitCode = Running
    /\ closeCalls = 0
    /\ exitStatus = Running
    /\ procEvents = <<>>

\* an event can be delivered: the process is alive
Deliver(event) ==
    /\ closePc # "off"
    /\ exitStatus = Running
    /\ Len(procEvents) < MaxEvents
    /\ procEvents' = Append(procEvents, event)

\* gracefulShutdown(exitCode) up to its await: nothing when a shutdown is
\* under way, else the flag is set and server.close() is called
gracefulShutdown(exitCode) ==
    IF AlreadyShuttingDown
    THEN UNCHANGED <<isShuttingDown, closePc, shutdownExitCode, closeCalls>>
    ELSE /\ isShuttingDown' = TRUE
         /\ closePc' = "pending"
         /\ shutdownExitCode' = exitCode
         /\ closeCalls' = closeCalls + 1

\* exitOnBrokenPipe(source, error) for a broken-pipe-like error
exitOnBrokenPipe ==
    IF streamExitInProgress
    THEN UNCHANGED <<streamExitInProgress, exitStatus>>
    ELSE /\ streamExitInProgress' = TRUE
         /\ exitStatus' = BrokenPipeExitCode

\* process.on('SIGTERM')
Sigterm ==
    /\ Deliver("SIGTERM")
    /\ gracefulShutdown(0)
    /\ UNCHANGED <<fatalHandlerInProgress, streamExitInProgress,
                   sigintListener, exitStatus>>
    /\ UNCHANGED <<poolVars, authVars, aggVars, retryVars, backoffVars, allocVars, toolVars, permVars, httpVars>>

\* process.once('SIGINT'): the listener is removed when it runs; a later
\* SIGINT is not handled by this program
Sigint ==
    /\ sigintListener
    /\ Deliver("SIGINT")
    /\ sigintListener' = FALSE
    /\ gracefulShutdown(0)
    /\ UNCHANGED <<fatalHandlerInProgress, streamExitInProgress, exitStatus>>
    /\ UNCHANGED <<poolVars, authVars, aggVars, retryVars, backoffVars, allocVars, toolVars, permVars, httpVars>>

\* process.stdin.on('close') and process.stdin.on('end')
StdinGone(event) ==
    /\ event \in {"stdinClose", "stdinEnd"}
    /\ Deliver(event)
    /\ gracefulShutdown(0)
    /\ UNCHANGED <<fatalHandlerInProgress, streamExitInProgress,
                   sigintListener, exitStatus>>
    /\ UNCHANGED <<poolVars, authVars, aggVars, retryVars, backoffVars, allocVars, toolVars, permVars, httpVars>>

\* process.on('uncaughtException') and process.on('unhandledRejection'):
\* both handlers take the same decisions
FatalError(event, brokenPipe) ==
    /\ event \in {"uncaughtException", "unhandledRejection"}
    /\ Deliver(IF brokenPipe THEN "brokenPipe" ELSE event)
    /\ IF brokenPipe
       THEN /\ exitOnBrokenPipe
            /\ UNCHANGED <<isShuttingDown, fatalHandlerInProgress, closePc,
                           shutdownExitCode, closeCalls>>
       ELSE IF fatalHandlerInProgress
       THEN /\ exitStatus' = 1
            /\ UNCHANGED <<isShuttingDown, fatalHandlerInProgress,
                           streamExitInProgress, closePc, shutdownExitCode,
                           closeCalls>>
       ELSE /\ fatalHandlerInProgress' = TRUE
            /\ gracefulShutdown(1)
            /\ UNCHANGED <<streamExitInProgress, exitStatus>>
    /\ UNCHANGED sigintListener
    /\ UNCHANGED <<poolVars, authVars, aggVars, retryVars, backoffVars, allocVars, toolVars, permVars, httpVars>>

\* process.stdout.on('error') / process.stderr.on('error')
StreamError(brokenPipe) ==
    /\ Deliver(IF brokenPipe THEN "streamBrokenPipe" ELSE "streamError")
    /\ IF brokenPipe
       THEN exitOnBrokenPipe
       ELSE UNCHANGED <<streamExitInProgress, exitStatus>>
    /\ UNCHANGED <<isShuttingDown, fatalHandlerInProgress, sigintListener,
                   closePc, shutdownExitCode, closeCalls>>
    /\ UNCHANGED <<poolVars, authVars, aggVars, retryVars, backoffVars, allocVars, toolVars, permVars, httpVars>>

\* server.close() settles and gracefulShutdown continues: whatever the
\* outcome, it ends in process.exit(exitCode)
ServerCloseSettles(outcome) ==
    /\ closePc = "pending"
    /\ exitStatus = Running
    /\ closePc' = outcome
    /\ exitStatus' = shutdownExitCode
    /\ UNCHANGED <<isShuttingDown, fatalHandlerInProgress, streamExitInProgress,
                   sigintListener, shutdownExitCode, closeCalls, procEvents>>
    /\ UNCHANGED <<poolVars, authVars, aggVars, retryVars, backoffVars, allocVars, toolVars, permVars, httpVars>>

ProcNext ==
    \/ Sigterm
    \/ Sigint
    \/ \E event \in {"stdinClose", "stdinEnd"} : StdinGone(event)
    \/ \E event \in {"uncaughtException", "unhandledRejection"},
          brokenPipe \in BOOLEAN : FatalError(event, brokenPipe)
    \/ \E brokenPipe \in BOOLEAN : StreamError(brokenPipe)
    \/ \E outcome \in CloseOutcomes : ServerCloseSettles(outcome)

(* ====================================================================== *)
(* The aggregation as a function of whole searches, applied to the same   *)
(* searches in every processing order                                     *)
(* ====================================================================== *)

\* a search: its keyword, the links of its results in order, and the position
\* of its first result (a Reddit result's position is its index plus one)
SearchesOf(d) ==
    [keyword : 1..MaxSearches,
     links : {<<a>> : a \in AggLinks} \cup {<<a, b>> : a, b \in AggLinks},
     first : IF d = "web" THEN {1, 10, 30} ELSE {1}]

\* the inner loop of aggregateResults / aggregateRedditResults over the
\* results of one search, from result i on
RECURSIVE MergeSearch(_, _, _)
MergeSearch(m, search, i) ==
    IF i > Len(search.links) THEN m
    ELSE MergeSearch(MergeResult(m, search.links[i], search.first + i - 1,
                                 search.keyword),
                     search, i + 1)

\* the outer loop of aggregateResults / aggregateRedditResults, from search k on
RECURSIVE aggregateResults(_, _, _)
aggregateResults(m, searches, k) ==
    IF k > Len(searches) THEN m
    ELSE aggregateResults(MergeSearch(m, searches[k], 1), searches, k + 1)

\* the processing orders of n searches
Orders(n) ==
    {f \in [1..n -> 1..n] : \A i, j \in 1..n : f[i] = f[j] => i = j}

\* how often each value occurs in a list
Multiset(list) ==
    [v \in {list[i] : i \in 1..Len(list)} |->
        Cardinality({i \in 1..Len(list) : list[i] = v})]

\* what aggregateAndRank gives for the searches taken in this order: per
\* item the frequency, best position, positions and cumulative score, and
\* the threshold used
OrderOutcome(d, searches, order, minUrls) ==
    LET permuted == [i \in 1..Len(searches) |-> searches[order[i]]]
        m == aggregateResults(<<>>, permuted, 1)
        r == aggregateAndRank(d, m, minUrls, Len(permuted))
    IN  [items |-> {[key |-> m[k].key,
                     frequency |-> m[k].frequency,
                     bestPosition |-> m[k].bestPosition,
                     positions |-> Multiset(m[k].positions),
                     totalScore |-> m[k].totalScore] : k \in 1..Len(m)},
         frequencyThreshold |-> r.frequencyThreshold,
         order |-> order]

PermInit ==
    /\ pDomain \in {"web", "reddit"}
    /\ \E n \in 1..MaxSearches :
          /\ pSearches \in [1..n -> SearchesOf(pDomain)]
          /\ \A k \in 1..n : pSearches[k].keyword = k
    /\ pMinUrls = 0
    /\ pPc = "input"
    /\ pOutcomes = {}

PermOff ==
    /\ pDomain = "off"
    /\ pSearches = <<>>
    /\ pMinUrls = 0
    /\ pPc = "input"
    /\ pOutcomes = {}

\* aggregateAndRank / aggregateAndRankReddit is called on the searches, once
\* for each order in which they can be given
AggregateInEveryOrder(minUrls) ==
    /\ pDomain # "off"
    /\ pPc = "input"
    /\ pMinUrls' = minUrls
    /\ pOutcomes' = {OrderOutcome(pDomain, pSearches, order, minUrls) :
                        order \in Orders(Len(pSearches))}
    /\ pPc' = "done"
    /\ UNCHANGED <<pDomain, pSearches>>
    /\ UNCHANGED <<poolVars, authVars, aggVars, retryVars, backoffVars, allocVars, toolVars, procVars, httpVars>>

PermNext == \E minUrls \in MinUrlsValues : AggregateInEveryOrder(minUrls)

(* ====================================================================== *)
(* HTTP mode (index.ts): the request handler of /mcp and the session map  *)
(* ====================================================================== *)

HttpRequests == 1..MaxHttpRequests

\* session ids: randomUUID() gives a fresh one per initialized session
SessionIds == 1..MaxSessions

\* the mcp-session-id header is absent
NoSessionId == 0

Methods == {"GET", "POST", "DELETE"}

NoRequest ==
    [method |-> "none", sessionId |-> NoSessionId, pc |-> "idle",
     answer |-> "none", registered |-> FALSE]

\* a faulty variant of SessionsHas: an id is accepted once it was initialized
SessionWasInitialized(sessionId) == sessionId \in hInitialized

\* sessions.has(sessionId)
SessionsHas(sessionId) == sessionId \in sessions

HttpInit ==
    /\ sessions = {}
    /\ hInitialized = {}
    /\ hClosed = {}
    /\ hReq = [r \in HttpRequests |-> NoRequest]
    /\ hDispatches = {}

HttpOff ==
    /\ sessions = {}
    /\ hInitialized = {}
    /\ hClosed = {}
    /\ hReq = <<>>
    /\ hDispatches = {}

\* transport.handleRequest(req, res) is called for request r
Dispatch(r, method, sessionId) ==
    hDispatches' = hDispatches \cup
        {[request |-> r, method |-> method, sessionId |-> sessionId,
          registered |-> sessionId \in sessions]}

\* A request to /mcp arrives and the handler runs up to its first await:
\* DELETE for a registered id and GET/POST for a registered id are given to
\* the session's transport, a POST without id starts a new session, anything
\* else is answered 404 (DELETE) or 400.
HttpRequest(r, method, sessionId) ==
    /\ r \in DOMAIN hReq
    /\ hReq[r].pc = "idle"
    /\ LET known == sessionId # NoSessionId /\ SessionsHas(sessionId)
           req == [method |-> method, sessionId |-> sessionId,
                   registered |-> sessionId \in sessions]
       IN  IF method = "DELETE"
           THEN IF known
                THEN /\ hReq' = [hReq EXCEPT ![r] =
                           req @@ [pc |-> "deleting", answer |-> "none"]]
                     /\ Dispatch(r, method, sessionId)
                ELSE /\ hReq' = [hReq EXCEPT ![r] =
                           req @@ [pc |-> "done", answer |-> "404"]]
                     /\ UNCHANGED hDispatches
           ELSE IF known
                THEN /\ hReq' = [hReq EXCEPT ![r] =
                           req @@ [pc |-> "handling", answer |-> "none"]]
                     /\ Dispatch(r, method, sessionId)
                ELSE IF sessionId = NoSessionId /\ method = "POST"
                THEN /\ hReq' = [hReq EXCEPT ![r] =
                           req @@ [pc |-> "connecting", answer |-> "none"]]
                     /\ UNCHANGED hDispatches
                ELSE /\ hReq' = [hReq EXCEPT ![r] =
                           req @@ [pc |-> "done", answer |-> "400"]]
                     /\ UNCHANGED hDispatches
    /\ UNCHANGED <<sessions, hInitialized, hClosed>>
    /\ UNCHANGED <<poolVars, authVars, aggVars, retryVars, backoffVars, allocVars, toolVars, procVars, permVars>>

\* The transport of an existing session has answered a GET or POST.
HandleRequestReturns(r) ==
    /\ r \in DOMAIN hReq
    /\ hReq[r].pc = "handling"
    /\ hReq' = [hReq EXCEPT ![r].pc = "done", ![r].answer = "transport"]
    /\ UNCHANGED <<sessions, hInitialized, hClosed, hDispatches>>
    /\ UNCHANGED <<poolVars, authVars, aggVars, retryVars, backoffVars, allocVars, toolVars, procVars, permVars>>

\* The new transport has handled the POST that carried no session id: for an
\* initialize request it generates a fresh id and calls onsessioninitialized,
\* which registers the session; any other request it answers itself.
NewSessionHandled(r, initialize) ==
    /\ r \in DOMAIN hReq
    /\ hReq[r].pc = "connecting"
    /\ hReq' = [hReq EXCEPT ![r].pc = "done", ![r].answer = "transport"]
    /\ IF initialize
       THEN /\ Cardinality(hInitialized) < MaxSessions
            /\ LET id == Cardinality(hInitialized) + 1
               IN  /\ sessions' = sessions \cup {id}
                   /\ hInitialized' = hInitialized \cup {id}
       ELSE UNCHANGED <<sessions, hInitialized>>
    /\ UNCHANGED <<hClosed, hDispatches>>
    /\ UNCHANGED <<poolVars, authVars, aggVars, retryVars, backoffVars, allocVars, toolVars, procVars, permVars>>

\* The transport has handled the DELETE (calling onsessionclosed, which
\* removes the session, when it closes the session) and the handler goes on
\* to sessions.delete(sessionId) and session.server.close().
DeleteHandled(r) ==
    /\ r \in DOMAIN hReq
    /\ hReq[r].pc = "deleting"
    /\ hReq' = [hReq EXCEPT ![r].pc = "done", ![r].answer = "transport"]
    /\ sessions' = sessions \ {hReq[r].sessionId}
    /\ hClosed' = hClosed \cup {hReq[r].sessionId}
    /\ UNCHANGED <<hInitialized, hDispatches>>
    /\ UNCHANGED <<poolVars, authVars, aggVars, retryVars, backoffVars, allocVars, toolVars, procVars, permVars>>

HttpNext ==
    \/ \E r \in HttpRequests, method \in Methods,
          sessionId \in SessionIds \cup {NoSessionId} :
             HttpRequest(r, method, sessionId)
    \/ \E r \in HttpRequests : HandleRequestReturns(r)
    \/ \E r \in HttpRequests, initialize \in BOOLEAN :
          NewSessionHandled(r, initialize)
    \/ \E r \in HttpRequests : DeleteHandled(r)

(* ====================================================================== *)
(* Specifications                                                         *)
(* ====================================================================== *)

Init == PoolInit /\ AuthOff /\ AggOff /\ RetryOff /\ BackoffOff /\ AllocOff /\ ToolOff /\ ProcOff /\ PermOff /\ HttpOff

Next == PoolNext

Spec == Init /\ [][Next]_vars

\* the pool when every mapper call eventually settles and the event loop
\* runs every continuation that is ready
PoolFairness ==
    /\ \A i \in 1..MaxItems + 1 : WF_vars(MapperSettle(i))
    /\ \A w \in 1..MaxItems + 1 : WF_vars(WorkerResume(w))
    /\ WF_vars(PoolReject)
    /\ WF_vars(PoolResolve)

\* the calls whose items are all alike: the item values have no part in
\* whether a call ends
InitPoolLive == Init /\ \A i \in 1..N : items[i] = "x"

SpecPoolLive == InitPoolLive /\ [][Next]_vars /\ PoolFairness

\* the credential cache alone
InitAuth == PoolOff /\ AuthInit /\ AggOff /\ RetryOff /\ BackoffOff /\ AllocOff /\ ToolOff /\ ProcOff /\ PermOff /\ HttpOff

SpecAuth == InitAuth /\ [][AuthNext]_vars

\* the aggregator alone
InitAgg == PoolOff /\ AuthOff /\ AggInit /\ RetryOff /\ BackoffOff /\ AllocOff /\ ToolOff /\ ProcOff /\ PermOff /\ HttpOff

SpecAgg == InitAgg /\ [][AggNext]_vars

\* the aggregation of one search of two links
InitUrl == PoolOff /\ AuthOff /\ UrlInit /\ RetryOff /\ BackoffOff /\ AllocOff /\ ToolOff /\ ProcOff /\ PermOff /\ HttpOff

SpecUrl == InitUrl /\ [][UrlNext]_vars

\* one call of research() or of processContentWithLLM()
InitRetry == PoolOff /\ AuthOff /\ AggOff /\ RetryInit /\ BackoffOff /\ AllocOff /\ ToolOff /\ ProcOff /\ PermOff /\ HttpOff

SpecRetry == InitRetry /\ [][RetryNext]_vars

\* the successive backoff delays of one retried operation
InitBackoff == PoolOff /\ AuthOff /\ AggOff /\ RetryOff /\ BackoffInit /\ AllocOff /\ ToolOff /\ ProcOff /\ PermOff /\ HttpOff

SpecBackoff == InitBackoff /\ [][BackoffNext]_vars

\* one allocation call
InitAlloc ==
    /\ PoolOff /\ AuthOff /\ AggOff /\ RetryOff /\ BackoffOff /\ ToolOff
    /\ ProcOff /\ PermOff /\ HttpOff
    /\ AllocInit

SpecAlloc == InitAlloc /\ [][AllocNext]_vars

\* the CallTool requests of one server
InitTool ==
    /\ PoolOff /\ AuthOff /\ AggOff /\ RetryOff /\ BackoffOff /\ AllocOff
    /\ ProcOff /\ PermOff /\ HttpOff
    /\ ToolInit

SpecTool == InitTool /\ [][ToolNext]_vars

\* one run of the server process
InitProc ==
    /\ PoolOff /\ AuthOff /\ AggOff /\ RetryOff /\ BackoffOff /\ AllocOff
    /\ ToolOff /\ PermOff /\ HttpOff /\ ProcInit

SpecProc == InitProc /\ [][ProcNext]_vars

\* one set of searches aggregated in every order
InitPerm ==
    /\ PoolOff /\ AuthOff /\ AggOff /\ RetryOff /\ BackoffOff /\ AllocOff
    /\ ToolOff /\ ProcOff /\ HttpOff /\ PermInit

SpecPerm == InitPerm /\ [][PermNext]_vars

\* the HTTP server and its sessions
InitHttp ==
    /\ PoolOff /\ AuthOff /\ AggOff /\ RetryOff /\ BackoffOff /\ AllocOff
    /\ ToolOff /\ ProcOff /\ PermOff /\ HttpInit

SpecHttp == InitHttp /\ [][HttpNext]_vars

\* the same when server.close() eventually settles
SpecProcLive ==
    InitProc /\ [][ProcNext]_vars
        /\ \A outcome \in CloseOutcomes : WF_vars(ServerCloseSettles(outcome))

\* the number of mapper calls started and not yet settled
InFlight == Cardinality({i \in 1..N : mapperState[i] = "pending"})

(* ---------------------------------------------------------------------- *)
(* Properties of the worker pool                                          *)
(* ---------------------------------------------------------------------- *)

\* the input order 1, 2, ..., n
InputOrder(n) == [i \in 1..n |-> i]

\* C1: for a requested concurrency C with 1 <= C <= N, at no point of a pMap or
\* pMapSettled call are more than C mapper calls started and not yet settled.
C1_InFlightAtMostConcurrency ==
    (1 <= concurrency /\ concurrency <= N) => InFlight <= concurrency

\* C1 witness: the ceiling is reached again after calls settled out of input
\* order, with items still unclaimed behind the cursor's first batch.
C1_Witness ==
    /\ 2 <= concurrency /\ concurrency < N
    /\ InFlight = concurrency
    /\ nextIndex > concurrency
    /\ settleOrder # <<>> /\ settleOrder[1] # 1

\* C2: when pMap or pMapSettled resolves, every results[i] is the outcome of
\* the mapper call made for items[i], whatever the order of completion.
C2_ResultsAlignedWithItems ==
    poolState = "resolved" =>
        /\ Len(results) = N
        /\ \A i \in 1..N :
              results[i] =
                 IF mode = "pMap"
                 THEN [status |-> "value", value |-> <<items[i], i>>]
                 ELSE IF i \in failing
                      THEN [status |-> "rejected", value |-> <<"error", i>>]
                      ELSE [status |-> "fulfilled", value |-> <<items[i], i>>]

\* C2 witness: a resolved call of at least two items whose mapper calls
\* completed in an order other than the input order.
C2_Witness ==
    /\ poolState = "resolved"
    /\ N >= 2
    /\ Len(settleOrder) = N
    /\ settleOrder # InputOrder(N)

\* C3 (as claimed): once pMap has rejected, no mapper call is still running,
\* so none was in flight when the failure reached the caller and none was
\* started afterwards.
C3_NoCallRunningAfterReject ==
    (mode = "pMap" /\ poolState = "rejected") => InFlight = 0

\* C4: pMapSettled never rejects, runs every item once, and resolves to N
\* markers, 'rejected' at exactly the failing indices, 'fulfilled' elsewhere.
C4_SettledNeverAborts ==
    mode = "pMapSettled" =>
        /\ poolState # "rejected"
        /\ \A w \in DOMAIN workerPc : workerPc[w] # "rejected"
        /\ poolState = "resolved" =>
              /\ Len(results) = N
              /\ \A i \in 1..N :
                    /\ invoked[i] = 1
                    /\ results[i].status =
                          IF i \in failing THEN "rejected" ELSE "fulfilled"

\* C4 witness: a resolved pMapSettled call in which some, but not all, mapper
\* calls rejected, one of them before the last item was claimed.
C4_Witness ==
    /\ mode = "pMapSettled"
    /\ poolState = "resolved"
    /\ failing # {} /\ failing # 1..N
    /\ 1 \in failing
    /\ Limit(concurrency, N) < N

\* the clamp of C to [1, n], written out
Clamped(c, n) == IF c < 1 THEN 1 ELSE IF c > n THEN n ELSE c

AllLoopsEnded == \A w \in DOMAIN workerPc : workerPc[w] # "awaiting"

\* C32 (as claimed): whenever every mapper call eventually settles, a call
\* ends and no item is left unclaimed.
C32_EndsWithEveryItemClaimed ==
    (poolState # "idle") ~>
        (poolState \in {"resolved", "rejected"} /\ nextIndex = N)

\* C32 (amended): whenever every mapper call eventually settles, a call of
\* pMapSettled resolves and a call of pMap resolves or rejects, every
\* pull-loop ends, and a call that resolved left no item unclaimed.
C32_EndsAndResolvedClaimedAll ==
    /\ (poolState # "idle") ~>
          (poolState \in {"resolved", "rejected"} /\ AllLoopsEnded)
    /\ (poolState # "idle" /\ (mode = "pMapSettled" \/ failing = {})) ~>
          (poolState = "resolved")
    /\ [](poolState = "resolved" => nextIndex = N)

\* C32 witness: a pMap call over three items has rejected, all its mapper
\* calls have settled, its pull-loops have ended and an item was never claimed.
C32_Witness ==
    /\ mode = "pMap"
    /\ N = 3
    /\ poolState = "rejected"
    /\ AllLoopsEnded
    /\ InFlight = 0
    /\ nextIndex < N

(* ---------------------------------------------------------------------- *)
(* Properties of the credential cache                                     *)
(* ---------------------------------------------------------------------- *)

\* every caller has asked, and each asked before any fetch had settled: the
\* callers requested concurrently against a cold cache
AllAskedCold ==
    \A c \in Callers : callerPc[c] # "idle" /\ callerArrival[c] = 0

\* C5: when all callers request the credential concurrently against a cold
\* cache, exactly one upstream fetch is issued, every caller awaits that fetch
\* and all resolve to its value; at no time are two fetches pending.
C5_SingleFetchSharedByAll ==
    /\ Cardinality({f \in DOMAIN fetchResult : fetchResult[f] = "pending"}) <= 1
    /\ AllAskedCold =>
          /\ fetchCount = 1
          /\ \A c \in Callers : callerFetch[c] = 1
          /\ \A c, d \in Callers :
                (callerPc[c] = "done" /\ callerPc[d] = "done") =>
                    callerToken[c] = callerToken[d]
          /\ \A c \in Callers :
                callerPc[c] = "done" =>
                    callerToken[c] = IF fetchResult[1] = "ok" THEN 1 ELSE 0

\* C5 witness: all callers asked while the cache was cold, the one fetch
\* answered with a token, and every caller has resolved to it.
C5_Witness ==
    /\ MaxCallers >= 2
    /\ AllAskedCold
    /\ \A c \in Callers : callerPc[c] = "done" /\ callerToken[c] = 1

(* ---------------------------------------------------------------------- *)
(* Properties of the aggregator                                           *)
(* ---------------------------------------------------------------------- *)

Abs(x) == IF x < 0 THEN 0 - x ELSE x

\* two well-formed URLs that differ at most by one leading "www." of the
\* host, one trailing slash of the path, letter case and scheme
DifferOnlyCosmetically(l1, l2) ==
    /\ l1.scheme # "none" /\ l2.scheme # "none"
    /\ l1.host = l2.host /\ l1.path = l2.path /\ l1.query = l2.query
    /\ Abs(l1.www - l2.www) <= 1
    /\ Abs(l1.slashes - l2.slashes) <= 1

\* C6 (as claimed): two result URLs that differ only by a leading "www.", a
\* trailing slash on the path, letter case or scheme are merged into a single
\* aggregated item, and URLs with different normalized keys are not merged.
C6_CosmeticVariantsMerged ==
    (Len(linkPair) = 2 /\ curPos = 2) =>
        /\ DifferOnlyCosmetically(linkPair[1], linkPair[2]) => Len(urlMap) = 1
        /\ normalizeUrl(linkPair[1]) # normalizeUrl(linkPair[2]) => Len(urlMap) = 2

\* the aggregated items: the entries of the map and the returned ranked items
AggregatedItems ==
    {urlMap[k] : k \in 1..Len(urlMap)}
        \cup {aggregation.rankedUrls[k] : k \in 1..Len(aggregation.rankedUrls)}

\* C7: after any sequence of merged occurrences, every aggregated item has
\* frequency = length(positions) = length(queries).
C7_FrequencyMatchesLists ==
    \A e \in AggregatedItems :
        e.frequency = Len(e.positions) /\ e.frequency = Len(e.queries)

\* C7 witness: an item merged three times, twice out of the same search.
C7_Witness ==
    \E k \in 1..Len(urlMap) :
        /\ urlMap[k].frequency = 3
        /\ urlMap[k].queries[1] = urlMap[k].queries[2]
        /\ urlMap[k].queries[2] # urlMap[k].queries[3]

\* the least element of a non-empty sequence of numbers
MinOf(seq) == CHOOSE x \in {seq[i] : i \in 1..Len(seq)} :
                  \A j \in 1..Len(seq) : x <= seq[j]

\* C8: after any sequence of merged occurrences of one identifier, in any
\* order, bestPosition is the minimum of positions and the stored title and
\* snippet are those of a merged occurrence at that minimum position.
C8_BestPositionAndTitle ==
    \A e \in AggregatedItems :
        /\ e.bestPosition = MinOf(e.positions)
        /\ e.title.p = e.bestPosition
        /\ e.snippet = e.title
        /\ \E j \in 1..Len(e.positions) :
              e.positions[j] = e.title.p /\ e.queries[j] = e.title.q

\* C8 witness: the best position arrived second, and the third occurrence is
\* better than the first one seen but worse than the best.
C8_Witness ==
    \E k \in 1..Len(urlMap) :
        /\ urlMap[k].frequency = 3
        /\ urlMap[k].positions[2] < urlMap[k].positions[3]
        /\ urlMap[k].positions[3] < urlMap[k].positions[1]
        /\ urlMap[k].title.p = urlMap[k].positions[2]

\* C9 (as claimed): the rank-1 item of every non-empty ranking has normalized
\* score 100, and an empty result set gives an empty list.
C9_TopScoreAlways100 ==
    aggPc = "ranked" =>
        /\ urlMap = <<>> => aggregation.rankedUrls = <<>>
        /\ aggregation.rankedUrls # <<>> => aggregation.rankedUrls[1].score = 100

\* some returned item has a position that carries weight (a position below 30)
SomeWeightReturned ==
    \E i \in 1..Len(aggregation.rankedUrls) :
        \E j \in 1..Len(aggregation.rankedUrls[i].positions) :
            aggregation.rankedUrls[i].positions[j] < 30

\* C9 (amended): an empty result set gives an empty list; the rank-1 item of a
\* non-empty ranking has rank 1 and normalized score 100 when some returned
\* item has a position below 30, and score 0 when every position of the
\* returned items is 30 or beyond (all weights are 0, nothing is divided).
C9_TopScore100UnlessNoWeight ==
    aggPc = "ranked" =>
        /\ urlMap = <<>> => aggregation.rankedUrls = <<>>
        /\ aggregation.rankedUrls # <<>> =>
              /\ aggregation.rankedUrls[1].rank = 1
              /\ aggregation.rankedUrls[1].score =
                    IF SomeWeightReturned THEN 100 ELSE 0

\* C9 witness: a ranking of two items of different weight.
C9_Witness ==
    /\ aggPc = "ranked"
    /\ Len(aggregation.rankedUrls) = 2
    /\ aggregation.rankedUrls[1].score = 100
    /\ aggregation.rankedUrls[2].score < 100
    /\ aggregation.rankedUrls[2].score > 0

\* the number of items whose frequency is at least t
CountAtLeast(t) ==
    Cardinality({k \in 1..Len(urlMap) : urlMap[k].frequency >= t})

\* the thresholds that reach minConsensusUrls items
Qualifying ==
    {t \in (IF domain = "web" THEN {3, 2, 1} ELSE {2, 1}) :
        CountAtLeast(t) >= minConsensusUrls}

\* C10: the reported threshold is the highest of 3, 2, 1 (web) or 2, 1
\* (Reddit) for which at least minConsensusUrls items have that frequency,
\* and 1 when none reaches that count.
C10_HighestQualifyingThreshold ==
    aggPc = "ranked" =>
        aggregation.frequencyThreshold =
            IF Qualifying = {} THEN 1
            ELSE CHOOSE t \in Qualifying : \A u \in Qualifying : u <= t

\* C10 witness: a web aggregation in which threshold 3 does not reach the
\* count, threshold 2 does, and 2 is reported.
C10_Witness ==
    /\ aggPc = "ranked"
    /\ domain = "web"
    /\ CountAtLeast(3) < minConsensusUrls
    /\ CountAtLeast(2) >= minConsensusUrls
    /\ Len(urlMap) = 2
    /\ aggregation.frequencyThreshold = 2

\* the frequencies of the returned items
ReturnedFrequencies ==
    {aggregation.rankedUrls[k].frequency : k \in 1..Len(aggregation.rankedUrls)}

\* C11 (as claimed): the minimum frequency among the returned items of a
\* non-empty ranking equals the reported frequencyThreshold.
C11_MinFrequencyEqualsThreshold ==
    (aggPc = "ranked" /\ aggregation.rankedUrls # <<>>) =>
        /\ aggregation.frequencyThreshold \in ReturnedFrequencies
        /\ \A f \in ReturnedFrequencies : f >= aggregation.frequencyThreshold

\* C11 (amended): the minimum frequency among the returned items of a
\* non-empty ranking is at least the reported frequencyThreshold.
C11_MinFrequencyAtLeastThreshold ==
    (aggPc = "ranked" /\ aggregation.rankedUrls # <<>>) =>
        \A f \in ReturnedFrequencies : f >= aggregation.frequencyThreshold

\* C11 witness: threshold 2 is reported, an item of frequency 1 was left out
\* and the returned item has frequency 2.
C11_Witness ==
    /\ aggPc = "ranked"
    /\ aggregation.frequencyThreshold = 2
    /\ ReturnedFrequencies = {2}
    /\ Len(urlMap) > Len(aggregation.rankedUrls)

C13_ConsensusIffAtLeastUsedThreshold ==
    aggPc = "ranked" =>
        \A k \in 1..Len(aggregation.rankedUrls) :
            aggregation.rankedUrls[k].isConsensus <=>
                aggregation.rankedUrls[k].frequency >= aggregation.frequencyThreshold

\* C14 (as claimed): for empty input (no queries, or queries without results)
\* the ranked list is empty, the default threshold is reported (3 for web, 2
\* for Reddit) and no note is attached.
C14_EmptyInputDefaults ==
    (aggPc = "ranked" /\ urlMap = <<>>) =>
        /\ aggregation.rankedUrls = <<>>
        /\ aggregation.frequencyThreshold = (IF domain = "web" THEN 3 ELSE 2)
        /\ ~aggregation.thresholdNote

\* the cumulative score of the aggregated item with this key
CumulativeScore(key) == urlMap[EntryIndex(urlMap, key)].totalScore

\* C15: the returned ranking is in non-increasing order of cumulative score,
\* the ranks are 1..K in list order, and items of equal cumulative score keep
\* the order in which they were first merged.
C15_SortedDenseStable ==
    aggPc = "ranked" =>
        /\ \A k \in 1..Len(aggregation.rankedUrls) :
              aggregation.rankedUrls[k].rank = k
        /\ \A i, j \in 1..Len(aggregation.rankedUrls) :
              i < j =>
                 LET a == aggregation.rankedUrls[i].key
                     b == aggregation.rankedUrls[j].key
                 IN  /\ CumulativeScore(a) >= CumulativeScore(b)
                     /\ CumulativeScore(a) = CumulativeScore(b) =>
                           EntryIndex(urlMap, a) < EntryIndex(urlMap, b)

\* C15 witness: two returned items of equal cumulative score, and a third
\* result merged into the map.
C15_Witness ==
    /\ aggPc = "ranked"
    /\ Len(aggregation.rankedUrls) = 2
    /\ CumulativeScore(aggregation.rankedUrls[1].key)
          = CumulativeScore(aggregation.rankedUrls[2].key)
    /\ CumulativeScore(aggregation.rankedUrls[1].key) > 0

\* C16 (as claimed): the frequency of every aggregated item is the number of
\* queries that contributed it, each query counted once.
C16_FrequencyCountsQueriesOnce ==
    \A e \in AggregatedItems :
        e.frequency = Cardinality({e.queries[j] : j \in 1..Len(e.queries)})

\* the retry loop of model m has run and ended
LoopEnded(m) ==
    /\ calls[m] > 0
    /\ \/ retryPc = "done"
       \/ m = "primary" /\ model = "fallback"

\* a failure of one of the retryable kinds: HTTP 429, 5xx, or a timeout /
\* connection failure known by its message when there is no status
RetryableFailure(o) ==
    /\ o.kind = "error"
    /\ \/ o.status \in {429, 503}
       \/ o.status = 0 /\ o.pattern

\* an authentication failure
AuthFailure(o) == o.kind = "error" /\ o.status \in {401, 403}

\* an upstream response each function takes for empty: executeResearch one
\* without any choice, processContentWithLLM also one whose content is blank
EmptyResponse(o) ==
    \/ o.kind = "nochoice"
    \/ input.fn = "llm" /\ o.kind = "blank"

C18_AuthFailureNeverRetried ==
    retryPc = "sleeping" => ~AuthFailure(lastOutcome[model])

\* C19 (as claimed): after an empty upstream response neither loop schedules
\* a further attempt, and a call whose last upstream response was empty
\* reports a failure (error field / processed = false).
C19_EmptyResponseIsTerminalFailure ==
    /\ retryPc = "sleeping" => ~EmptyResponse(lastOutcome[model])
    /\ (retryPc = "done" /\ EmptyResponse(lastOutcome[model])) =>
          IF input.fn = "research" THEN retryResult.error # NoError
          ELSE ~retryResult.processed

\* C20 (as claimed): research() and processContentWithLLM never reject, and
\* when the call failed (the input was refused, or the last upstream call
\* threw or returned an empty response) the resolved value carries the error:
\* ResearchResponse.error, or processed = false with error and errorDetails.
C20_NeverRejectsErrorInResult ==
    /\ retryPc # "rejected"
    /\ (retryPc = "done" /\ input.fn = "research"
          /\ (\/ calls.primary = 0
              \/ lastOutcome[model].kind = "error"
              \/ EmptyResponse(lastOutcome[model]))) =>
          retryResult.error # NoError
    /\ (retryPc = "done" /\ input.fn = "llm"
          /\ (\/ lastOutcome[model].kind = "error"
              \/ EmptyResponse(lastOutcome[model]))) =>
          /\ ~retryResult.processed
          /\ retryResult.error
          /\ retryResult.errorDetails # NoError

\* C21: within one retried operation the pre-jitter delay base * 2^attempt
\* of a retry is strictly greater than that of the retry before it, for the
\* research and the LLM extraction configuration.
C21_PreJitterDelayStrictlyIncreasing ==
    bAttempt >= 0 =>
        /\ bExponential = RetryConfig(bFn).baseDelayMs * Pow2(bAttempt)
        /\ bAttempt >= 1 => bExponential > bPrevExponential

\* C21 witness: the third sleep of a research operation, 20000 after 10000.
C21_Witness ==
    /\ bFn = "research"
    /\ bAttempt = 2
    /\ bExponential = 20000
    /\ bPrevExponential = 10000

\* C22: every backoff delay is min(base * 2^attempt + jitter, cap) with
\* 0 <= jitter <= 0.3 * base * 2^attempt, is at least
\* min(base * 2^attempt, cap) and never exceeds cap.
C22_DelayWithinBounds ==
    bAttempt >= 0 =>
        LET cfg == RetryConfig(bFn)
            pre == cfg.baseDelayMs * Pow2(bAttempt)
        IN  /\ bJitter >= 0
            /\ 10 * bJitter <= 3 * pre
            /\ bDelay = Min(pre + bJitter, cfg.maxDelayMs)
            /\ bDelay >= Min(pre, cfg.maxDelayMs)
            /\ bDelay <= cfg.maxDelayMs

\* C22 witness: a delay cut down to the cap (research, attempt 4: 80000
\* before jitter, 60000 returned).
C22_Witness ==
    /\ bFn = "research"
    /\ bAttempt = 4
    /\ bExponential + bJitter > 60000
    /\ bJitter > 0
    /\ bDelay = 60000

\* C23: once the cancellation signal has fired while processContentWithLLM
\* waits for its upstream call or in a backoff sleep, the next step of the
\* function is its return of the failure result: the sleep ends without a
\* further attempt and no new upstream call is issued.
C23_NoRetryAfterCancellation ==
    [][(signalAborted /\ retryPc \in {"calling", "sleeping"}) =>
          /\ retryPc' = "done"
          /\ ~retryResult'.processed
          /\ retryResult'.error
          /\ calls' = calls]_vars

\* C23 witness: the signal fired during the backoff sleep after the first
\* attempt of an extraction, which returned the failure result after one
\* upstream call.
C23_Witness ==
    /\ retryPc = "done"
    /\ input.fn = "llm"
    /\ signalAborted
    /\ RetryableFailure(lastOutcome.primary)
    /\ calls.primary = 1
    /\ ~retryResult.processed
    /\ retryResult.content = input.content

\* an upstream outcome that is a failure: a thrown error or an empty response
FailedOutcome(o) == o.kind = "error" \/ EmptyResponse(o)

\* C24 (as claimed): when the attempts on the primary model ended in failure
\* and a different fallback model is configured, research() runs the fallback
\* model; it returns the fallback's response when that succeeds; it returns
\* an error response only when every model it may use failed; and it never
\* calls the fallback after the primary succeeded.
C24_FallbackAfterPrimaryFailure ==
    input.fn = "research" =>
        /\ (LoopEnded("primary") /\ FailedOutcome(lastOutcome.primary)
               /\ input.fallback) => calls.fallback >= 1
        /\ (retryPc = "done" /\ calls.fallback >= 1
               /\ ~FailedOutcome(lastOutcome.fallback)) =>
              retryResult = SuccessResponse(lastOutcome.fallback)
        /\ (retryPc = "done" /\ calls.primary >= 1
               /\ retryResult.error # NoError) =>
              /\ FailedOutcome(lastOutcome.primary)
              /\ input.fallback => FailedOutcome(lastOutcome.fallback)
        /\ (LoopEnded("primary") /\ ~FailedOutcome(lastOutcome.primary)) =>
              calls.fallback = 0

C26_NoUnitAboveCap ==
    /\ (aPc = "done" /\ aFn = "reddit" /\ aOut.error = "none") =>
          aOut.commentsPerPost <= REDDIT.MAX_COMMENTS_PER_POST
    /\ (aPc = "done" /\ aFn = "plan") =>
          \A i \in 1..aArgs.n :
              aOut.firstPass[i] <= aArgs.cap /\ aOut.final[i] <= aArgs.cap

C28_FloorShareZeroAsOne ==
    (aPc = "done" /\ aFn = "tokens") =>
        /\ aOut.perUnit = Finite(aArgs.budget \div Max(aArgs.count, 1))
        /\ aArgs = [budget |-> 32000, count |-> 1] => aOut.perUnit = Finite(32000)
        /\ aArgs = [budget |-> 32000, count |-> 10] => aOut.perUnit = Finite(3200)

\* C29: every CallTool request the handler has finished either returned a
\* result or rethrew an McpError; whatever else executeTool threw was turned
\* into a tool-error result and did not leave the handler.
C29_ToolErrorsNeverPropagate ==
    tEntry # "none" =>
        \A r \in Requests :
            /\ tPc[r] = "rethrown" =>
                  /\ tSettled[r].kind = "throw"
                  /\ tSettled[r].value.class = "McpError"
                  /\ tResponse[r] = tSettled[r].value
            /\ (tPc[r] \in {"returned", "rethrown"}
                   /\ tSettled[r].kind = "throw"
                   /\ tSettled[r].value.class # "McpError") =>
                  /\ tPc[r] = "returned"
                  /\ tResponse[r].isError
                  /\ tResponse[r].error # NoError
            /\ (tPc[r] = "returned" /\ tSettled[r].kind = "result") =>
                  tResponse[r] = tSettled[r].result

\* C29 witness: on one server a request whose executeTool threw a plain Error
\* got a tool-error result, another rethrew an McpError and a third returned
\* its result.
C29_Witness ==
    /\ tEntry = "index"
    /\ \E a, b, c \in Requests :
          /\ tPc[a] = "returned" /\ tSettled[a].value.class = "Error"
          /\ tResponse[a].isError
          /\ tPc[b] = "rethrown" /\ tSettled[b].value.class = "McpError"
          /\ tPc[c] = "returned" /\ tSettled[c].kind = "result"

\* C30: in pMap and pMapSettled the mapper is called at most once per item
\* and exactly once for the items below the cursor, no two running pull-loops
\* hold the same index, and once every pull-loop has ended no item was left
\* out, provided no mapper call fails in pMap (pMapSettled leaves none out
\* either way).
C30_EachIndexClaimedOnce ==
    poolState # "idle" /\ N > 0 =>
        /\ \A i \in 1..N : invoked[i] = IF i <= nextIndex THEN 1 ELSE 0
        /\ \A v, w \in DOMAIN workerPc :
              (v # w /\ workerPc[v] = "awaiting" /\ workerPc[w] = "awaiting")
                  => workerIndex[v] # workerIndex[w]
        /\ ((\A w \in DOMAIN workerPc : workerPc[w] # "awaiting")
               /\ (mode = "pMapSettled" \/ failing = {}))
              => \A i \in 1..N : invoked[i] = 1

\* C30 witness: a pMapSettled call over three items with two pull-loops has
\* returned although a mapper call failed, the calls settled out of input
\* order, and every item was run once.
C30_Witness ==
    /\ mode = "pMapSettled"
    /\ N = 3
    /\ Limit(concurrency, N) = 2
    /\ failing # {}
    /\ poolState = "resolved"
    /\ settleOrder = <<2, 3, 1>>
    /\ \A i \in 1..N : invoked[i] = 1

(* ---------------------------------------------------------------------- *)
(* Properties of the process lifetime                                     *)
(* ---------------------------------------------------------------------- *)

\* an uncaughtException or unhandledRejection that is no broken-pipe error
\* has been delivered
FatalSeen ==
    \E k \in 1..Len(procEvents) :
        procEvents[k] \in {"uncaughtException", "unhandledRejection"}

\* C33 (as claimed): a process that has exited after an uncaughtException or
\* unhandledRejection that is no broken-pipe error has exited with a non-zero
\* code, however the error interleaved with signals, stdin events and further
\* fatal errors.
C33_FatalErrorExitsNonZero ==
    (FatalSeen /\ exitStatus # Running) => exitStatus # 0

\* C34: server.close() is invoked at most once over any sequence of events,
\* and once a shutdown has started the process reaches process.exit, whether
\* server.close() resolves or fails.
C34_ShutdownAtMostOnce ==
    /\ [](closeCalls <= 1)
    /\ [](closePc \in CloseOutcomes => exitStatus # Running)
    /\ isShuttingDown ~> (exitStatus # Running)

\* C34 witness: after SIGTERM, SIGINT and a stdin event server.close() was
\* called once, it failed, and the process has exited.
C34_Witness ==
    /\ \E i, j, k \in 1..Len(procEvents) :
          /\ procEvents[i] = "SIGTERM"
          /\ procEvents[j] = "SIGINT"
          /\ procEvents[k] \in {"stdinClose", "stdinEnd"}
    /\ closeCalls = 1
    /\ closePc = "failed"
    /\ exitStatus # Running

\* C35: whenever processContentWithLLM has returned processed = false, for
\* whichever reason, the content it returned is the content it was given,
\* also when that content is over the input limit.
C35_UnprocessedContentIsInput ==
    (input.fn = "llm" /\ retryPc = "done" /\ ~retryResult.processed)
        => retryResult.content = input.content

\* C35 witness: a content over the input limit came back unprocessed after the
\* retries were used up.
C35_Witness ==
    /\ input.fn = "llm"
    /\ OverMaxInputChars(input.content)
    /\ retryPc = "done"
    /\ ~retryResult.processed
    /\ calls.primary = LLM_RETRY_CONFIG.maxRetries + 1
    /\ retryResult.content = input.content

\* w(p) in hundredths: the table value up to 10, then 10 - (p - 10) * 0.5
\* while that is positive, and 0 from position 30 on
PositionWeight(p) ==
    CASE p = 1 -> 10000 [] p = 2 -> 6000 [] p = 3 -> 4889 [] p = 4 -> 3333
      [] p = 5 -> 2889 [] p = 6 -> 2644 [] p = 7 -> 2444 [] p = 8 -> 1778
      [] p = 9 -> 1333 [] p = 10 -> 1256
      [] p > 10 /\ p < 30 -> 1000 - 50 * (p - 10)
      [] p >= 30 -> 0

\* C36: at every point of an aggregation the cumulative score of every
\* aggregated item is the sum of w(p) over its recorded positions, and is not
\* negative.
C36_ScoreIsSumOfPositionWeights ==
    \A k \in 1..Len(urlMap) :
        /\ urlMap[k].totalScore >= 0
        /\ urlMap[k].totalScore =
              SumSeq([i \in 1..Len(urlMap[k].positions) |->
                         PositionWeight(urlMap[k].positions[i])])

\* C36 witness: an item recorded at a table position, at a position between
\* 10 and 30 and at a position beyond 30.
C36_Witness ==
    \E k \in 1..Len(urlMap) :
        /\ Len(urlMap[k].positions) = 3
        /\ \E a, b, c \in 1..3 :
              /\ urlMap[k].positions[a] <= 10
              /\ urlMap[k].positions[b] = 11
              /\ urlMap[k].positions[c] > 30
        /\ urlMap[k].totalScore > 950

\* the keys of the aggregated items of frequency at least f
KeysAtLeast(f) ==
    {urlMap[k].key : k \in {j \in 1..Len(urlMap) : urlMap[j].frequency >= f}}

\* C37: the returned ranking holds exactly the aggregated items whose
\* frequency is at least the reported frequencyThreshold, each once, and
\* totalUniqueUrls is the number of distinct keys, whatever the threshold.
C37_RankingIsExactlyItemsAtThreshold ==
    aggPc = "ranked" =>
        LET ranked == aggregation.rankedUrls
        IN  /\ {ranked[i].key : i \in 1..Len(ranked)}
                  = KeysAtLeast(aggregation.frequencyThreshold)
            /\ \A i, j \in 1..Len(ranked) :
                  ranked[i].key = ranked[j].key => i = j
            /\ \A i \in 1..Len(ranked) :
                  ranked[i].frequency
                     = urlMap[EntryIndex(urlMap, ranked[i].key)].frequency
            /\ aggregation.totalUniqueUrls = Cardinality(KeysAtLeast(1))
            /\ aggregation.totalUniqueUrls = Len(urlMap)

\* C37 witness: threshold 2 is reported; of two aggregated items one reaches
\* it and is returned, the other is left out but counted.
C37_Witness ==
    /\ aggPc = "ranked"
    /\ aggregation.frequencyThreshold = 2
    /\ Len(aggregation.rankedUrls) = 1
    /\ aggregation.rankedUrls[1].frequency = 2
    /\ aggregation.totalUniqueUrls = 2
    /\ Cardinality(KeysAtLeast(2)) = 1

(* ---------------------------------------------------------------------- *)
(* Properties of the aggregation under reordering of the searches         *)
(* ---------------------------------------------------------------------- *)

C39_DispatchOnlyToRegisteredSession ==
    /\ \A d \in hDispatches : d.registered
    /\ sessions \subseteq (hInitialized \ hClosed)
    /\ \A r \in DOMAIN hReq :
          (hReq[r].pc # "idle" /\ hReq[r].sessionId # NoSessionId
              /\ ~hReq[r].registered)
             => /\ hReq[r].pc = "done"
                /\ hReq[r].answer =
                      IF hReq[r].method = "DELETE" THEN "404" ELSE "400"
                /\ \A d \in hDispatches : d.request # r

\* C39 witness: a session was initialized and deleted, and a later POST
\* carrying its id was answered 400, while a request made during the
\* session's life went to its transport.
C39_Witness ==
    /\ 1 \in hInitialized
    /\ 1 \in hClosed
    /\ \E r \in DOMAIN hReq :
          /\ hReq[r].method = "POST" /\ hReq[r].sessionId = 1
          /\ hReq[r].answer = "400"
    /\ \E d \in hDispatches : d.sessionId = 1 /\ d.method = "DELETE"

====
